---- MODULE Spec2Model ----
(***************************************************************************)
(* Model of find-juju-users: the branch-name pattern matcher               *)
(* (src/src/index.ts) and the resumable, cache-backed scan                 *)
(* (src/src/index.ts, github.ts and cache.ts of the caching revision).     *)
(*                                                                         *)
(* Strings that the code inspects character by character (branch names)    *)
(* are sequences of one-character strings.                                 *)
(***************************************************************************)
EXTENDS Integers, Sequences, FiniteSets, TLC

VARIABLES
  branchName,       \* matcher: the argument of matchesBranchPattern
  matchResult,      \* matcher: its return value, or NoResult before the call
  parseInput,       \* parseRepoString: its argument
  parseOutput,      \* parseRepoString: its return value, or NoParse
  matchList,        \* main's display: the match list that is aggregated
  report,           \* main's display: the groups it prints, or NoReport
  topInput,         \* getTopRepos' loop: [count, items]
  topOutput,        \* getTopRepos' loop: [repos, pages, result], or NoTopOutput
  listInput,        \* getRepositories of the gh revision: [organization, first, pages]
  listOutput,       \* its outcome: [raised, value, calls], or NoListOutput
  disk,             \* .cache/find-juju-cache.json: [present, data]
  cacheInstance,    \* github.ts module variable: [loaded, data]
  options,          \* the CliOptions of the current run
  pc,               \* where the process is
  ctx,              \* which function resolves repositories: "main" or "branches"
  acqIdx,           \* the next acquisition step
  mainRepos,        \* main's repositories array
  repositories,     \* the repositories array of the running pass
  unprocessedRepos, \* the filtered array the pass iterates over
  loopIdx,          \* position of the pass in unprocessedRepos
  fetched,          \* the collection getBranches/getPullRequests returned
  processedRepos,   \* the counter of the running pass
  matchingBranches, \* matches of findMatchingBranches
  matchingPRs,      \* matches of findMatchingPullRequests
  calls,            \* provider calls issued in the current run, in order
  runs,             \* number of runs started
  crashes,          \* number of interruptions so far
  failures,         \* number of provider failures so far
  history           \* what earlier runs did (for statements about re-runs)

mvars == <<branchName, matchResult, parseInput, parseOutput, matchList, report,
           topInput, topOutput, listInput, listOutput>>
svars == <<disk, cacheInstance, options, pc, ctx, acqIdx, mainRepos,
           repositories, unprocessedRepos, loopIdx, fetched, processedRepos,
           matchingBranches, matchingPRs, calls, runs, crashes,
           failures, history>>
vars == <<mvars, svars>>

(***************************************************************************)
(* Characters                                                              *)
(***************************************************************************)
Lower == {"a","b","c","d","e","f","g","h","i","j","k","l","m",
          "n","o","p","q","r","s","t","u","v","w","x","y","z"}
Upper == {"A","B","C","D","E","F","G","H","I","J","K","L","M",
          "N","O","P","Q","R","S","T","U","V","W","X","Y","Z"}
Digit == {"0","1","2","3","4","5","6","7","8","9"}

\* the regex class \w, a plausible slip for [a-zA-Z0-9]
IsWordChar(c) == c \in Lower \cup Upper \cup Digit \cup {"_"}

\* the character class [a-zA-Z0-9] of both patterns
IsAlnum(c) == c \in Lower \cup Upper \cup Digit

\* the literal "push-" of both patterns
PushLit == <<"p","u","s","h","-">>

\* the repetition count {12} of both patterns
SuffixLen == 12

Min(S) == CHOOSE x \in S : \A y \in S : x <= y

\* s[from..] starts with the literal lit
HasLitAt(s, from, lit) ==
  /\ from >= 1
  /\ from + Len(lit) - 1 <= Len(s)
  /\ \A k \in 1..Len(lit) : s[from + k - 1] = lit[k]

\* s[from..to] is a run of [a-zA-Z0-9]
AlnumRun(s, from, to) == \A k \in from..to : IsAlnum(s[k])

(***************************************************************************)
(* matchesBranchPattern                                                    *)
(***************************************************************************)
\* pattern1 = /^push-[a-zA-Z0-9]{12}$/ ; pattern1.test(s)
pattern1test(s) ==
  /\ Len(s) = Len(PushLit) + SuffixLen
  /\ HasLitAt(s, 1, PushLit)
  /\ AlnumRun(s, Len(PushLit) + 1, Len(s))

\* pattern2 = /([^\/]+)\/push-[a-zA-Z0-9]{12}$/ tried at start offset i with
\* the group ending before offset j (the position of the "/")
Pattern2At(s, i, j) ==
  /\ 1 <= i /\ i < j /\ j <= Len(s)
  /\ \A k \in i..(j - 1) : s[k] # "/"
  /\ s[j] = "/"
  /\ HasLitAt(s, j + 1, PushLit)
  /\ j + Len(PushLit) + SuffixLen = Len(s)
  /\ AlnumRun(s, j + Len(PushLit) + 1, Len(s))

\* the start offsets at which pattern2 matches
Pattern2Starts(s) ==
  {i \in 1..Len(s) : \E j \in 1..Len(s) : Pattern2At(s, i, j)}

\* a variant anchored at the start with a greedy (.+) group: the group is
\* the whole prefix before the final "/"
pattern2matchWholePrefix(s) ==
  LET j == Len(s) - Len(PushLit) - SuffixLen
  IN IF j >= 2 /\ s[j] = "/" /\ s[j - 1] # "/" /\ HasLitAt(s, j + 1, PushLit)
        /\ AlnumRun(s, j + Len(PushLit) + 1, Len(s))
     THEN [found |-> TRUE, group1 |-> SubSeq(s, 1, j - 1)]
     ELSE [found |-> FALSE, group1 |-> <<>>]

\* branchName.match(pattern2): the leftmost match; group1 is match[1]
pattern2match(s) ==
  IF Pattern2Starts(s) = {}
  THEN [found |-> FALSE, group1 |-> <<>>]
  ELSE LET i == Min(Pattern2Starts(s))
           j == CHOOSE j \in 1..Len(s) : Pattern2At(s, i, j)
       IN [found |-> TRUE, group1 |-> SubSeq(s, i, j - 1)]

\* the value of a missing username field
Undefined == <<"undefined">>

matchesBranchPattern(s) ==
  IF pattern1test(s)
  THEN [matches |-> TRUE, username |-> Undefined]
  ELSE LET match == pattern2match(s)
       IN IF match.found /\ match.group1 # <<>>
          THEN [matches |-> TRUE, username |-> match.group1]
          ELSE [matches |-> FALSE, username |-> Undefined]

(***************************************************************************)
(* Sequences                                                               *)
(***************************************************************************)
\* a variant that cuts one element late
TakeOneMore(s, n) == SubSeq(s, 1, IF n + 1 < Len(s) THEN n + 1 ELSE Len(s))

\* Array.prototype.slice(0, n)
Take(s, n) == SubSeq(s, 1, IF n < Len(s) THEN n ELSE Len(s))

StartsWith(s, pre) ==
  /\ Len(pre) <= Len(s)
  /\ SubSeq(s, 1, Len(pre)) = pre

(***************************************************************************)
(* Repositories and cache keys                                             *)
(***************************************************************************)
\* a Repository as the code builds it from a provider response
Repo(owner, name) == [owner |-> owner, name |-> name]

\* the template string `${owner}/${repo}`
RepoKey(owner, name) == owner \o <<"/">> \o name

KeyOf(repo) == RepoKey(repo.owner, repo.name)

RECURSIVE SplitFrom(_, _, _)
\* String.prototype.split("/"): the segments of s from offset i on, cur being
\* the segment under construction
SplitFrom(s, i, cur) ==
  IF i > Len(s) THEN <<cur>>
  ELSE IF s[i] = "/" THEN <<cur>> \o SplitFrom(s, i + 1, <<>>)
  ELSE SplitFrom(s, i + 1, Append(cur, s[i]))

Split(s) == SplitFrom(s, 1, <<>>)

\* a variant that takes everything after the first "/" as repo
parseRepoStringRest(repoString) ==
  LET parts == Split(repoString)
  IN [owner |-> parts[1],
      repo |-> IF Len(parts) >= 2
               THEN SubSeq(repoString, Len(parts[1]) + 2, Len(repoString))
               ELSE Undefined]

\* const [owner, repo] = repoString.split('/'); a missing part is undefined
parseRepoString(repoString) ==
  LET parts == Split(repoString)
  IN [owner |-> parts[1],
      repo |-> IF Len(parts) >= 2 THEN parts[2] ELSE Undefined]

(***************************************************************************)
(* The provider (GitHub), as the code sees it                              *)
(***************************************************************************)
OwnerO == <<"o">>
OwnerQ == <<"q">>

\* the provider's repositories, sorted by full name
ProviderRepos == <<Repo(OwnerO, <<"r">>), Repo(OwnerO, <<"s">>), Repo(OwnerQ, <<"t">>)>>

\* search.repos sorted by stars, descending: the provider has only these
ProviderTop == <<Repo(OwnerQ, <<"t">>), Repo(OwnerO, <<"r">>)>>

\* owner and repository names are looked up case-insensitively by the provider;
\* the response carries the canonical spelling
FoldChar(c) == IF c = "O" THEN "o" ELSE IF c = "R" THEN "r" ELSE c
Fold(s) == [k \in 1..Len(s) |-> FoldChar(s[k])]

\* repos.get({owner, repo}): the repositories that answer the request (none:
\* the call fails with Not Found)
ProviderGet(owner, name) ==
  {ProviderRepos[k] : k \in {k \in 1..Len(ProviderRepos) :
       /\ ProviderRepos[k].owner = Fold(owner)
       /\ ProviderRepos[k].name = Fold(name)}}

\* repos.listForOrg / repos.listForUser, sort: full_name
ProviderListForOwner(owner) ==
  SelectSeq(ProviderRepos, LAMBDA r : r.owner = Fold(owner))

\* orgs.get succeeds for organizations and fails with Not Found for users
ProviderIsOrg(owner) == Fold(owner) = OwnerO

XRun == [k \in 1..SuffixLen |-> "x"]
BranchMain == <<"m","a","i","n">>
BranchAlPush == <<"a","l","/">> \o PushLit \o XRun
BranchPush == PushLit \o XRun

Branch(name) == [name |-> name]

\* repos.listBranches
ProviderBranches(repo) ==
  IF repo = Repo(OwnerO, <<"r">>) THEN <<Branch(BranchAlPush), Branch(BranchMain)>>
  ELSE IF repo = Repo(OwnerO, <<"s">>) THEN <<Branch(BranchPush)>>
  ELSE <<Branch(BranchMain)>>

PullRequest(number, status, headRef, login) ==
  [number |-> number, status |-> status, head |-> [ref |-> headRef],
   user |-> [login |-> login]]

\* the user field of a pull request in the provider's response; a pull request
\* whose author's account is gone has none
Author(login) == [present |-> TRUE, login |-> login]
NoAuthor == [present |-> FALSE, login |-> <<>>]

ProviderPullRequest(number, status, headRef, user) ==
  [number |-> number, status |-> status, head |-> [ref |-> headRef], user |-> user]

ProviderAllPRs(repo) ==
  IF repo = Repo(OwnerO, <<"r">>)
  THEN <<ProviderPullRequest(3, "open", BranchMain, Author(<<"e","v","e">>)),
         ProviderPullRequest(2, "open", BranchPush, Author(<<"b","o","b">>)),
         ProviderPullRequest(1, "closed", BranchAlPush, Author(<<"b","o","b">>))>>
  ELSE IF repo = Repo(OwnerQ, <<"t">>)
  THEN <<ProviderPullRequest(2, "open", BranchPush, NoAuthor),
         ProviderPullRequest(1, "open", BranchMain, Author(<<"e","v","e">>))>>
  ELSE <<>>

Unknown == <<"u","n","k","n","o","w","n">>

\* a variant that takes the login as it is
LoginOfAsIs(user) == user.login

\* pr.user?.login || 'unknown'
LoginOf(user) == IF user.present /\ user.login # <<>> THEN user.login ELSE Unknown

\* the map function handed to octokit.paginate
MapPullRequest(pr) == PullRequest(pr.number, pr.status, pr.head.ref, LoginOf(pr.user))

\* octokit.paginate(pulls.list, {state}, map), newest first
ProviderPRs(repo, state) ==
  LET page == SelectSeq(ProviderAllPRs(repo), LAMBDA pr : state = "all" \/ pr.status = state)
  IN [k \in 1..Len(page) |-> MapPullRequest(page[k])]

(***************************************************************************)
(* cache.ts                                                                *)
(***************************************************************************)
\* option values of a run; topRepos and maxRepos are 0 when not given
CliOptions(owners, repos, topRepos, maxBranches, maxRepos, includePrs, maxPrs, prStatus, forceRefresh, clearCache) ==
  [owners |-> owners, repos |-> repos, topRepos |-> topRepos,
   maxBranches |-> maxBranches, maxRepos |-> maxRepos,
   includePrs |-> includePrs, maxPrs |-> maxPrs, prStatus |-> prStatus,
   forceRefresh |-> forceRefresh, clearCache |-> clearCache]

DefaultMaxBranches == 1000
DefaultMaxPrs == 100

NoTopRepos == [present |-> FALSE, count |-> 0, data |-> <<>>]

\* keyOrder is the insertion order of the keys of repositories (the order of
\* Object.keys); repositories and ownerRepos are maps, a missing key being
\* outside the DOMAIN
initializeCache ==
  [cliOptions |-> CliOptions(<<>>, <<>>, 0, DefaultMaxBranches, 0, FALSE,
                             DefaultMaxPrs, "all", FALSE, FALSE),
   keyOrder |-> <<>>,
   repositories |-> <<>>,
   topRepos |-> NoTopRepos,
   ownerRepos |-> <<>>]

\* an entry with only data and processed: false; absent fields are falsy
NewEntry(repo) ==
  [data |-> repo, ownerType |-> "none",
   hasBranches |-> FALSE, branches |-> <<>>,
   hasPullRequests |-> FALSE, pullRequests |-> <<>>,
   processed |-> FALSE, branchesProcessed |-> FALSE, prsProcessed |-> FALSE]

\* a variant that finds no entry
HasEntryNever(cache, key) == FALSE

HasEntry(cache, key) == key \in DOMAIN cache.repositories

\* cache.repositories[key] = entry
PutEntry(cache, key, entry) ==
  [cache EXCEPT
     !.repositories = (key :> entry) @@ cache.repositories,
     !.keyOrder = IF HasEntry(cache, key) THEN @ ELSE Append(@, key)]

\* a variant without the spread of the existing entry
UpsertRepoFresh(cache, repo) == PutEntry(cache, KeyOf(repo), NewEntry(repo))

\* repositories[repoKey] = {...repositories[repoKey], data: repo, processed: false}
UpsertRepo(cache, repo) ==
  PutEntry(cache, KeyOf(repo),
           IF HasEntry(cache, KeyOf(repo))
           THEN [cache.repositories[KeyOf(repo)] EXCEPT !.data = repo, !.processed = FALSE]
           ELSE NewEntry(repo))

RECURSIVE UpsertAll(_, _)
\* repositories.forEach(repo => ...)
UpsertAll(cache, repos) ==
  IF repos = <<>> THEN cache
  ELSE UpsertAll(UpsertRepo(cache, Head(repos)), Tail(repos))

\* a variant that records the list and leaves the map alone
cacheOwnerRepositoriesListOnly(cache, owner, repos) ==
  [cache EXCEPT !.ownerRepos = (owner :> repos) @@ cache.ownerRepos]

cacheOwnerRepositories(cache, owner, repos) ==
  UpsertAll([cache EXCEPT !.ownerRepos = (owner :> repos) @@ cache.ownerRepos], repos)

cacheTopRepositories(cache, count, repos) ==
  UpsertAll([cache EXCEPT !.topRepos = [present |-> TRUE, count |-> count, data |-> repos]],
            repos)

\* the entry a collection is stored in: the existing one, or a new one whose
\* data is made up from the arguments
EntryFor(cache, owner, repo) ==
  IF HasEntry(cache, RepoKey(owner, repo))
  THEN cache.repositories[RepoKey(owner, repo)]
  ELSE NewEntry(Repo(owner, repo))

cacheBranches(cache, owner, repo, branches) ==
  PutEntry(cache, RepoKey(owner, repo),
           [EntryFor(cache, owner, repo) EXCEPT !.hasBranches = TRUE, !.branches = branches])

cachePullRequests(cache, owner, repo, pullRequests) ==
  PutEntry(cache, RepoKey(owner, repo),
           [EntryFor(cache, owner, repo) EXCEPT
              !.hasPullRequests = TRUE, !.pullRequests = pullRequests])

\* a variant that creates the entry when it is missing, as cacheBranches does
markCreatingEntry(cache, owner, repo, flag) ==
  PutEntry(cache, RepoKey(owner, repo),
           IF flag = "branches"
           THEN [EntryFor(cache, owner, repo) EXCEPT !.branchesProcessed = TRUE]
           ELSE [EntryFor(cache, owner, repo) EXCEPT !.prsProcessed = TRUE])

\* a variant that flips the flag
markRepositoryFlagToggling(cache, owner, repo, flag) ==
  IF ~HasEntry(cache, RepoKey(owner, repo)) THEN cache
  ELSE [cache EXCEPT !.repositories[RepoKey(owner, repo)] =
          IF flag = "branches" THEN [@ EXCEPT !.branchesProcessed = ~@]
          ELSE [@ EXCEPT !.prsProcessed = ~@]]

\* markRepositoryProcessed, for the flag the caller names: the cache is
\* returned as it is when the repository has no entry
markRepositoryFlag(cache, owner, repo, flag) ==
  IF ~HasEntry(cache, RepoKey(owner, repo)) THEN cache
  ELSE [cache EXCEPT !.repositories[RepoKey(owner, repo)] =
          IF flag = "branches" THEN [@ EXCEPT !.branchesProcessed = TRUE]
          ELSE [@ EXCEPT !.prsProcessed = TRUE]]

markRepositoryBranchesProcessed(cache, owner, repo) ==
  markRepositoryFlag(cache, owner, repo, "branches")

markRepositoryPRsProcessed(cache, owner, repo) ==
  markRepositoryFlag(cache, owner, repo, "prs")

\* every entry whose key starts with `${owner}/` gets the owner type
saveOwnerType(cache, owner, isOrg) ==
  IF DOMAIN cache.repositories = {} THEN cache
  ELSE
  [cache EXCEPT !.repositories =
     [k \in DOMAIN cache.repositories |->
        IF StartsWith(k, owner \o <<"/">>)
        THEN [cache.repositories[k] EXCEPT
                !.ownerType = IF isOrg THEN "organization" ELSE "user"]
        ELSE cache.repositories[k]]]

\* the returned object is only held by main's local variable
updateCliOptions(cache, opts) == [cache EXCEPT !.cliOptions = opts]


(***************************************************************************)
(* cli.ts: the .check of parseArgs                                         *)
(***************************************************************************)
\* String.prototype.includes for a single character
includes(s, c) == \E k \in 1..Len(s) : s[k] = c

\* a variant of the format test without the count of parts
ValidRepoFormatAnySlash(repo) == repo # <<>> /\ includes(repo, "/")

\* !(!repo || !repo.includes('/') || repo.split('/').length !== 2)
ValidRepoFormat(repo) ==
  /\ repo # <<>>
  /\ includes(repo, "/")
  /\ Len(Split(repo)) = 2

\* the check passes (returns true); otherwise it throws and yargs exits
check(opts) ==
  /\ ~(Len(opts.owners) = 0 /\ Len(opts.repos) = 0 /\ opts.topRepos = 0)
  /\ \A k \in 1..Len(opts.repos) : ValidRepoFormat(opts.repos[k])

(***************************************************************************)
(* index.ts: the grouping that main prints                                 *)
(***************************************************************************)
\* the string '<no prefix>'
NoPrefix == <<"<","n","o"," ","p","r","e","f","i","x",">">>

\* a || b for a string a that may be undefined or empty
OrElse(a, b) == IF a = Undefined \/ a = <<>> THEN b ELSE a

\* a Map is the sequence of its [key, value] entries in insertion order
MapHas(m, key) == \E k \in 1..Len(m) : m[k].key = key

MapGet(m, key) == m[CHOOSE k \in 1..Len(m) : m[k].key = key].value

\* Map.prototype.set: a new key goes to the end, a known key keeps its place
MapSet(m, key, value) ==
  IF MapHas(m, key)
  THEN [k \in 1..Len(m) |-> IF m[k].key = key THEN [key |-> key, value |-> value] ELSE m[k]]
  ELSE Append(m, [key |-> key, value |-> value])

RECURSIVE GroupByRepository(_, _)
\* matches.forEach(match => { if (!repoMap.has(...)) repoMap.set(..., []);
\* repoMap.get(...).push(match) })
GroupByRepository(matches, repoMap) ==
  IF matches = <<>> THEN repoMap
  ELSE LET match == Head(matches)
           withKey == IF MapHas(repoMap, match.repository) THEN repoMap
                      ELSE MapSet(repoMap, match.repository, <<>>)
       IN GroupByRepository(Tail(matches),
            MapSet(withKey, match.repository,
                   Append(MapGet(withKey, match.repository), match)))

RECURSIVE CountByUsername(_, _)
\* userBranches.set(username, (userBranches.get(username) || 0) + 1) with
\* username = branch.username || '<no prefix>'
CountByUsername(branches, userBranches) ==
  IF branches = <<>> THEN userBranches
  ELSE LET username == OrElse(Head(branches).username, NoPrefix)
           before == IF MapHas(userBranches, username) THEN MapGet(userBranches, username) ELSE 0
       IN CountByUsername(Tail(branches), MapSet(userBranches, username, before + 1))

RECURSIVE ListByUsername(_, _)
\* userPRs.get(pr.username).push(pr), the key being set to [] when new
ListByUsername(prs, userPRs) ==
  IF prs = <<>> THEN userPRs
  ELSE LET pr == Head(prs)
           before == IF MapHas(userPRs, pr.username) THEN MapGet(userPRs, pr.username) ELSE <<>>
       IN ListByUsername(Tail(prs), MapSet(userPRs, pr.username, Append(before, pr)))

\* a variant with the comparator a - b
RankAscending(w, i) ==
  1 + Cardinality({j \in 1..Len(w) : w[j] < w[i] \/ (w[j] = w[i] /\ j < i)})

\* the place of element i after a stable sort with the comparator b - a, w
\* being the numbers compared
Rank(w, i) ==
  1 + Cardinality({j \in 1..Len(w) : w[j] > w[i] \/ (w[j] = w[i] /\ j < i)})

\* Array.prototype.sort on entries whose compared numbers are w
SortEntries(entries, w) ==
  [p \in 1..Len(entries) |-> entries[CHOOSE i \in 1..Len(entries) : Rank(w, i) = p]]

\* the lines printed for the branch matches: one group per repository with
\* its number of branches and the sorted user statistics
BranchReport(branchMatches) ==
  LET repoMap == GroupByRepository(branchMatches, <<>>)
  IN [g \in 1..Len(repoMap) |->
        LET userBranches == CountByUsername(repoMap[g].value, <<>>)
        IN [repository |-> repoMap[g].key,
            total |-> Len(repoMap[g].value),
            userStats |-> SortEntries(userBranches,
                            [k \in 1..Len(userBranches) |-> userBranches[k].value])]]

\* the lines printed for the PR matches
PullRequestReport(prMatches) ==
  LET prRepoMap == GroupByRepository(prMatches, <<>>)
  IN [g \in 1..Len(prRepoMap) |->
        LET userPRs == ListByUsername(prRepoMap[g].value, <<>>)
        IN [repository |-> prRepoMap[g].key,
            total |-> Len(prRepoMap[g].value),
            userStats |-> SortEntries(userPRs,
                            [k \in 1..Len(userPRs) |-> Len(userPRs[k].value)])]]

\* what main prints after the passes
Display(branchMatches, prMatches) ==
  [branches |-> BranchReport(branchMatches), prs |-> PullRequestReport(prMatches)]

(***************************************************************************)
(* Values of the variables of a function that has not been called          *)
(***************************************************************************)
NoParse == [called |-> FALSE, value |-> [owner |-> <<>>, repo |-> <<>>]]
NoMatchList == [branches |-> <<>>, prs |-> <<>>]
NoReport == [called |-> FALSE, value |-> [branches |-> <<>>, prs |-> <<>>]]
NoTopInput == [count |-> 0, items |-> <<>>]
NoTopOutput == [called |-> FALSE, value |-> [repos |-> <<>>, pages |-> 0]]

MatcherIdle ==
  /\ branchName = <<>>
  /\ matchResult = [matches |-> FALSE, username |-> "unset"]

ParserIdle ==
  /\ parseInput = <<>>
  /\ parseOutput = NoParse

DisplayIdle ==
  /\ matchList = NoMatchList
  /\ report = NoReport

TopLoopIdle ==
  /\ topInput = NoTopInput
  /\ topOutput = NoTopOutput

NoListInput == [organization |-> <<>>, firstFails |-> FALSE, first |-> <<>>, pages |-> <<>>]
NoListOutput == [called |-> FALSE, raised |-> FALSE, value |-> <<>>, calls |-> 0]

ListIdle ==
  /\ listInput = NoListInput
  /\ listOutput = NoListOutput
(***************************************************************************)
(* Bounds and the configurations that are run                              *)
(***************************************************************************)
MaxRuns == 2
MaxCrashes == 1
MaxFailures == 1

StrOR == <<"o","/","r">>
StrQT == <<"q","/","t">>
StrOr == <<"O","/","r">>

Opts(owners, repos, topRepos, maxRepos, includePrs) ==
  CliOptions(owners, repos, topRepos, DefaultMaxBranches, maxRepos, includePrs,
             DefaultMaxPrs, "all", FALSE, FALSE)

Configs ==
  {Opts(<<OwnerO>>, <<>>, 0, 0, FALSE),
   Opts(<<OwnerO>>, <<>>, 0, 0, TRUE),
   Opts(<<OwnerO>>, <<StrQT>>, 0, 1, FALSE),
   Opts(<<OwnerO>>, <<StrQT>>, 0, 2, FALSE),
   Opts(<<OwnerO, OwnerO>>, <<>>, 0, 0, FALSE),
   Opts(<<>>, <<StrOR>>, 2, 0, FALSE),
   Opts(<<>>, <<>>, 3, 0, FALSE),
   Opts(<<>>, <<StrOr, StrQT>>, 0, 0, TRUE),
   Opts(<<>>, <<StrOr>>, 0, 1, FALSE)}

\* command lines that name no source, or a repository not of the form owner/repo
StrO == <<"o">>
StrORS == <<"o","/","r","/","s">>

BadConfigs ==
  {Opts(<<>>, <<>>, 0, 0, FALSE),
   Opts(<<OwnerO>>, <<StrO>>, 0, 0, FALSE),
   Opts(<<>>, <<StrQT, StrORS>>, 0, 0, TRUE)}

\* --max-branches, --max-prs and --pr-status of a run: the defaults, or tight
\* limits on open PRs
LimitPresets ==
  {[maxBranches |-> DefaultMaxBranches, maxPrs |-> DefaultMaxPrs, prStatus |-> "all"],
   [maxBranches |-> 1, maxPrs |-> 1, prStatus |-> "open"]}

LimitsOf(opts) ==
  [maxBranches |-> opts.maxBranches, maxPrs |-> opts.maxPrs, prStatus |-> opts.prStatus]

\* the limits are varied for the command line of an owner with PRs
LimitChoices(opts) ==
  IF opts.includePrs /\ opts.owners # <<>> THEN LimitPresets
  ELSE {[maxBranches |-> DefaultMaxBranches, maxPrs |-> DefaultMaxPrs, prStatus |-> "all"]}

(***************************************************************************)
(* github.ts: the cache instance and the file                              *)
(***************************************************************************)
NotLoaded == [loaded |-> FALSE, data |-> initializeCache]
NoFile == [present |-> FALSE, torn |-> FALSE, data |-> initializeCache]
File(cache) == [present |-> TRUE, torn |-> FALSE, data |-> cache]

\* the file when fs.writeFile was cut short: it exists and JSON.parse
\* throws on its content
TornFile == [present |-> TRUE, torn |-> TRUE, data |-> initializeCache]

\* a variant that only honours forceRefresh while nothing is loaded yet
loadCacheIgnoringForce(forceRefresh, file) ==
  IF file.present /\ ~file.torn THEN file.data ELSE initializeCache

\* loadCache: a fresh cache on forceRefresh, else the file's content, else
\* (no file, or no valid JSON in it) a fresh cache
loadCache(forceRefresh, file) ==
  IF forceRefresh THEN initializeCache
  ELSE IF file.present /\ ~file.torn THEN file.data ELSE initializeCache

\* getCache: cacheInstance after the call
getCache(instance, forceRefresh, file) ==
  IF ~instance.loaded \/ forceRefresh
  THEN [loaded |-> TRUE, data |-> loadCache(forceRefresh, file)]
  ELSE instance

\* a variant that leaves the file as it is
persistCacheSkipped(instance, file) == file

\* persistCache: the file after the call
persistCache(instance, file) ==
  IF instance.loaded THEN File(instance.data) ELSE file

(***************************************************************************)
(* The acquisition steps of main and findMatchingBranches                  *)
(***************************************************************************)
Source(kind, arg) == [kind |-> kind, arg |-> arg]

\* top repositories first, then the owners, then the explicit repositories
Sources(opts) ==
  (IF opts.topRepos > 0 THEN <<Source("top", <<>>)>> ELSE <<>>)
  \o [i \in 1..Len(opts.owners) |-> Source("owner", opts.owners[i])]
  \o [i \in 1..Len(opts.repos) |-> Source("repo", opts.repos[i])]

Call(op, arg) == [op |-> op, arg |-> arg]

NoHistory ==
  [prevDone |-> FALSE, prevForce |-> FALSE, prevBranches |-> <<>>, prevPRs |-> <<>>,
   plain |-> TRUE, failedBranches |-> {}, failedPRs |-> {},
   prevFailedBranches |-> {}, prevFailedPRs |-> {}, probed |-> {}, thrown |-> <<>>]

\* the values of the variables of a process that is not running
LocalsIdle ==
  /\ ctx = "main"
  /\ acqIdx = 1
  /\ mainRepos = <<>>
  /\ repositories = <<>>
  /\ unprocessedRepos = <<>>
  /\ loopIdx = 1
  /\ fetched = <<>>
  /\ processedRepos = 0
  /\ matchingBranches = <<>>
  /\ matchingPRs = <<>>
  /\ calls = <<>>

ScanIdle ==
  /\ disk = NoFile
  /\ cacheInstance = NotLoaded
  /\ options = Opts(<<OwnerO>>, <<>>, 0, 0, FALSE)
  /\ pc = "idle"
  /\ LocalsIdle
  /\ runs = 0
  /\ crashes = 0
  /\ failures = 0
  /\ history = NoHistory

\* the file that a completed run of --repo o/s leaves: the entry of o/s with
\* its branches and its branchesProcessed flag
EarlierFile ==
  LET repo == Repo(OwnerO, <<"s">>)
      got == PutEntry(initializeCache, KeyOf(repo), NewEntry(repo))
      listed == cacheBranches(got, repo.owner, repo.name, ProviderBranches(repo))
  IN File(markRepositoryBranchesProcessed(listed, repo.owner, repo.name))

\* the first run starts without a cache file, or (--owner o) on the file of
\* an earlier run that named another source
Init ==
  /\ MatcherIdle
  /\ ParserIdle
  /\ DisplayIdle
  /\ TopLoopIdle
  /\ ListIdle
  /\ \/ /\ disk = NoFile
        /\ options \in Configs \cup BadConfigs
     \/ /\ disk = EarlierFile
        /\ options = Opts(<<OwnerO>>, <<>>, 0, 0, FALSE)
  /\ cacheInstance = NotLoaded
  /\ pc = "idle"
  /\ LocalsIdle
  /\ runs = 0
  /\ crashes = 0
  /\ failures = 0
  /\ history = NoHistory

Running == pc \notin {"idle", "done", "failed", "rejected"}

\* the command line of a run: the sources stay, the flags and limits are
\* given anew
CommandLine(opts, forceRefresh, clearCache, limits) ==
  [opts EXCEPT !.forceRefresh = forceRefresh, !.clearCache = clearCache,
               !.maxBranches = limits.maxBranches, !.maxPrs = limits.maxPrs,
               !.prStatus = limits.prStatus]

\* getCliOptions when the check of parseArgs throws: yargs reports the error
\* and ends the process before main goes on
RejectArguments ==
  /\ ~Running
  /\ runs < MaxRuns
  /\ ~check(options)
  /\ \E forceRefresh \in BOOLEAN, clearCache \in BOOLEAN, limits \in LimitChoices(options) :
       options' = CommandLine(options, forceRefresh, clearCache, limits)
  /\ pc' = "rejected"
  /\ runs' = runs + 1
  /\ UNCHANGED <<mvars, disk, cacheInstance, ctx, acqIdx, mainRepos, repositories,
                 unprocessedRepos, loopIdx, fetched, processedRepos, matchingBranches,
                 matchingPRs, calls, crashes, failures, history>>

\* the owners whose type a probe of the run has determined: orgs.get was
\* answered and the listing was requested after it
Determined(log) ==
  {log[i].arg : i \in {i \in 1..(Len(log) - 1) :
                        /\ log[i].op = "orgs.get"
                        /\ log[i + 1] = Call("repos.listForOwner", log[i].arg)}}

\* main up to the first persistCache: getCliOptions, clearCache, getCache,
\* updateCliOptions (whose result stays in a local variable), persistCache
StartRun ==
  /\ ~Running
  /\ runs < MaxRuns
  /\ check(options)
  /\ \E forceRefresh \in BOOLEAN, clearCache \in BOOLEAN, limits \in LimitChoices(options) :
       LET file == IF clearCache THEN NoFile ELSE disk
           instance == getCache(NotLoaded, forceRefresh, file)
       IN /\ options' = CommandLine(options, forceRefresh, clearCache, limits)
          /\ cacheInstance' = instance
          /\ disk' = persistCache(instance, file)
          /\ history' = [history EXCEPT
               !.prevDone = (pc = "done"),
               !.prevForce = options.forceRefresh,
               !.prevBranches = matchingBranches,
               !.prevPRs = matchingPRs,
               !.plain = /\ @
                         /\ ~forceRefresh
                         /\ ~clearCache
                         /\ (runs = 0 \/ limits = LimitsOf(options)),
               !.failedBranches = {},
               !.failedPRs = {},
               !.prevFailedBranches = IF pc = "done" THEN history.failedBranches ELSE {},
               !.prevFailedPRs = IF pc = "done" THEN history.failedPRs ELSE {},
               !.probed = @ \cup Determined(calls),
               !.thrown = <<>>]
  /\ pc' = "acquire"
  /\ ctx' = "main"
  /\ acqIdx' = 1
  /\ mainRepos' = <<>>
  /\ repositories' = <<>>
  /\ unprocessedRepos' = <<>>
  /\ loopIdx' = 1
  /\ fetched' = <<>>
  /\ processedRepos' = 0
  /\ matchingBranches' = <<>>
  /\ matchingPRs' = <<>>
  /\ calls' = <<>>
  /\ runs' = runs + 1
  /\ UNCHANGED <<mvars, crashes, failures>>

\* the process is killed: its memory is gone, the file stays
Crash ==
  /\ Running
  /\ crashes < MaxCrashes
  /\ crashes' = crashes + 1
  /\ pc' = "idle"
  /\ cacheInstance' = NotLoaded
  /\ ctx' = "main"
  /\ acqIdx' = 1
  /\ mainRepos' = <<>>
  /\ repositories' = <<>>
  /\ unprocessedRepos' = <<>>
  /\ loopIdx' = 1
  /\ fetched' = <<>>
  /\ processedRepos' = 0
  /\ matchingBranches' = <<>>
  /\ matchingPRs' = <<>>
  /\ calls' = <<>>
  /\ history' = [history EXCEPT !.failedBranches = {}, !.failedPRs = {},
                                !.thrown = <<>>]
  /\ UNCHANGED <<mvars, disk, options, runs, failures>>

\* the process is killed inside saveCache, while fs.writeFile is writing the
\* file at the end of a pass: the file is left cut short
CrashDuringSave ==
  /\ pc \in {"branches_end", "prs_end"}
  /\ cacheInstance.loaded
  /\ crashes < MaxCrashes
  /\ crashes' = crashes + 1
  /\ disk' = TornFile
  /\ pc' = "idle"
  /\ cacheInstance' = NotLoaded
  /\ ctx' = "main"
  /\ acqIdx' = 1
  /\ mainRepos' = <<>>
  /\ repositories' = <<>>
  /\ unprocessedRepos' = <<>>
  /\ loopIdx' = 1
  /\ fetched' = <<>>
  /\ processedRepos' = 0
  /\ matchingBranches' = <<>>
  /\ matchingPRs' = <<>>
  /\ calls' = <<>>
  /\ history' = [history EXCEPT !.failedBranches = {}, !.failedPRs = {},
                                !.thrown = <<>>]
  /\ UNCHANGED <<mvars, options, runs, failures>>

AtSource(kind) ==
  /\ pc = "acquire"
  /\ acqIdx <= Len(Sources(options))
  /\ Sources(options)[acqIdx].kind = kind

\* repositories.push(...list) in the function that is resolving
PushRepos(list) ==
  /\ acqIdx' = acqIdx + 1
  /\ IF ctx = "main"
     THEN mainRepos' = mainRepos \o list /\ UNCHANGED repositories
     ELSE repositories' = repositories \o list /\ UNCHANGED mainRepos

\* the error reaches main's catch: process.exit(1)
ExitFailed ==
  /\ pc' = "failed"
  /\ UNCHANGED <<acqIdx, mainRepos, repositories>>

CanFail == failures < MaxFailures

\* throw new Error(message): the message is remembered
Throw(message) == history' = [history EXCEPT !.thrown = Append(@, message)]

\* 'Failed to fetch top repositories'
TopReposError == <<"Failed to fetch top repositories">>

\* `Failed to fetch repositories for ${owner}`
RepositoriesError(owner) == <<"Failed to fetch repositories for ">> \o owner

\* a variant that passes the provider's error on
RepositoryErrorFromProvider(owner, repo) == <<"Not Found">>

\* `Failed to fetch repository ${owner}/${repo}`
RepositoryError(owner, repo) == <<"Failed to fetch repository ">> \o RepoKey(owner, repo)

\* the instance and the file after `cacheInstance = c; await persistCache()`
Commit(c) ==
  /\ cacheInstance' = [loaded |-> TRUE, data |-> c]
  /\ disk' = File(c)

PerPage == 100

\* page p (1-based, per_page entries) of the search result items
TopPage(items, p) ==
  SubSeq(items, (p - 1) * PerPage + 1,
         IF p * PerPage < Len(items) THEN p * PerPage ELSE Len(items))

RECURSIVE TopLoopInclusive(_, _, _, _)
RECURSIVE TopLoop(_, _, _, _)
\* a variant with the loop condition repositories.length <= count
TopLoopInclusive(items, acc, page, count) ==
  IF ~(Len(acc) <= count) THEN [repos |-> acc, pages |-> page - 1]
  ELSE LET repos == TopPage(items, page)
       IN IF Len(repos) < PerPage
          THEN [repos |-> acc \o repos, pages |-> page]
          ELSE TopLoopInclusive(items, acc \o repos, page + 1, count)

\* the while loop of getTopRepos: the repositories collected and the pages
\* requested
TopLoop(items, acc, page, count) ==
  IF ~(Len(acc) < count) THEN [repos |-> acc, pages |-> page - 1]
  ELSE LET repos == TopPage(items, page)
       IN IF Len(repos) < PerPage
          THEN [repos |-> acc \o repos, pages |-> page]
          ELSE TopLoop(items, acc \o repos, page + 1, count)

\* the loop and the slice(0, count) of getTopRepos
TopFetch(items, count) ==
  LET loop == TopLoop(items, <<>>, 1, count)
  IN [repos |-> Take(loop.repos, count), pages |-> loop.pages]

\* a variant of the hit test that accepts a shorter cached array
TopCacheHitAnyLength(cache, count) ==
  /\ cache.topRepos.present
  /\ cache.topRepos.count = count

TopCacheHit(cache, count) ==
  /\ cache.topRepos.present
  /\ cache.topRepos.count = count
  /\ Len(cache.topRepos.data) = count

getTopRepos ==
  /\ AtSource("top")
  /\ LET cache == cacheInstance.data
         count == options.topRepos
         loop == TopFetch(ProviderTop, count)
         result == loop.repos
     IN IF TopCacheHit(cache, count)
        THEN /\ PushRepos(cache.topRepos.data)
             /\ UNCHANGED <<cacheInstance, disk, calls, failures, pc, history>>
        ELSE \/ /\ calls' = calls \o [p \in 1..loop.pages |-> Call("search.repos", <<>>)]
                /\ Commit(cacheTopRepositories(cache, count, result))
                /\ PushRepos(result)
                /\ UNCHANGED <<failures, pc, history>>
             \/ /\ CanFail
                /\ failures' = failures + 1
                /\ calls' = Append(calls, Call("search.repos", <<>>))
                /\ Throw(TopReposError)
                /\ ExitFailed
                /\ UNCHANGED <<cacheInstance, disk>>
  /\ UNCHANGED <<mvars, options, ctx, unprocessedRepos, loopIdx, fetched,
                 processedRepos, matchingBranches, matchingPRs,
                 runs, crashes>>

\* isOrganization answers from the cache when the first entry of the owner
\* (in key order) has an owner type
OwnerTypeCached(cache, owner) ==
  LET keys == SelectSeq(cache.keyOrder, LAMBDA k : StartsWith(k, owner \o <<"/">>))
  IN /\ keys # <<>>
     /\ cache.repositories[keys[1]].ownerType # "none"

getRepositories ==
  /\ AtSource("owner")
  /\ LET cache == cacheInstance.data
         owner == Sources(options)[acqIdx].arg
         probes == ~OwnerTypeCached(cache, owner)
         probeCall == IF probes THEN <<Call("orgs.get", owner)>> ELSE <<>>
         typed == IF probes THEN saveOwnerType(cache, owner, ProviderIsOrg(owner))
                  ELSE cache
         repos == ProviderListForOwner(owner)
     IN IF owner \in DOMAIN cache.ownerRepos
        THEN /\ PushRepos(cache.ownerRepos[owner])
             /\ UNCHANGED <<cacheInstance, disk, calls, failures, pc, history>>
        ELSE \/ /\ calls' = calls \o probeCall \o <<Call("repos.listForOwner", owner)>>
                /\ Commit(cacheOwnerRepositories(typed, owner, repos))
                /\ PushRepos(repos)
                /\ UNCHANGED <<failures, pc, history>>
             \/ \* the probe fails with something other than Not Found
                /\ CanFail /\ probes
                /\ failures' = failures + 1
                /\ calls' = calls \o probeCall
                /\ Throw(RepositoriesError(owner))
                /\ ExitFailed
                /\ UNCHANGED <<cacheInstance, disk>>
             \/ \* the listing fails after the probe
                /\ CanFail
                /\ failures' = failures + 1
                /\ calls' = calls \o probeCall \o <<Call("repos.listForOwner", owner)>>
                /\ IF probes THEN Commit(typed) ELSE UNCHANGED <<cacheInstance, disk>>
                /\ Throw(RepositoriesError(owner))
                /\ ExitFailed
  /\ UNCHANGED <<mvars, options, ctx, unprocessedRepos, loopIdx, fetched,
                 processedRepos, matchingBranches, matchingPRs,
                 runs, crashes>>

getSpecificRepository ==
  /\ AtSource("repo")
  /\ LET cache == cacheInstance.data
         parsed == parseRepoString(Sources(options)[acqIdx].arg)
         repoKey == RepoKey(parsed.owner, parsed.repo)
         found == ProviderGet(parsed.owner, parsed.repo)
     IN IF HasEntry(cache, repoKey)
        THEN /\ PushRepos(<<cache.repositories[repoKey].data>>)
             /\ UNCHANGED <<cacheInstance, disk, calls, failures, history>>
        ELSE /\ calls' = Append(calls, Call("repos.get", repoKey))
             /\ \/ \E repository \in found :
                     /\ Commit(PutEntry(cache, repoKey, NewEntry(repository)))
                     /\ PushRepos(<<repository>>)
                     /\ UNCHANGED <<failures, history>>
                \/ \* the catch block throws; the caller's catch logs "Failed to
                   \* add repository" and goes on with the next entry
                   /\ (found = {} /\ UNCHANGED failures)
                      \/ (CanFail /\ failures' = failures + 1)
                   /\ Throw(RepositoryError(parsed.owner, parsed.repo))
                   /\ PushRepos(<<>>)
                   /\ UNCHANGED <<cacheInstance, disk>>
  /\ UNCHANGED <<mvars, options, pc, ctx, unprocessedRepos, loopIdx, fetched,
                 processedRepos, matchingBranches, matchingPRs,
                 runs, crashes>>

(***************************************************************************)
(* index.ts: findMatchingBranches and findMatchingPullRequests             *)
(***************************************************************************)
CheckpointEvery == 5

BranchMatch(repo, branch) ==
  [repository |-> KeyOf(repo), branch |-> branch.name,
   username |-> matchesBranchPattern(branch.name).username]

\* the matches.push loop over one collection of branches
BranchMatchesOf(repo, branches) ==
  LET hits == SelectSeq(branches, LAMBDA b : matchesBranchPattern(b.name).matches)
  IN [k \in 1..Len(hits) |-> BranchMatch(repo, hits[k])]

\* username || pr.user.login
PullRequestMatch(repo, pr) ==
  [repository |-> KeyOf(repo), prNumber |-> pr.number, status |-> pr.status,
   branchName |-> pr.head.ref,
   username |-> IF matchesBranchPattern(pr.head.ref).username # Undefined
                THEN matchesBranchPattern(pr.head.ref).username
                ELSE pr.user.login]

PullRequestMatchesOf(repo, prs) ==
  LET hits == SelectSeq(prs, LAMBDA pr : matchesBranchPattern(pr.head.ref).matches)
  IN [k \in 1..Len(hits) |-> PullRequestMatch(repo, hits[k])]

RECURSIVE CachedBranchMatches(_, _)
\* the first loop of findMatchingBranches: matches of every cached collection
CachedBranchMatches(cache, repos) ==
  IF repos = <<>> THEN <<>>
  ELSE LET repo == Head(repos)
           here == IF HasEntry(cache, KeyOf(repo)) /\ cache.repositories[KeyOf(repo)].hasBranches
                   THEN BranchMatchesOf(repo, cache.repositories[KeyOf(repo)].branches)
                   ELSE <<>>
       IN here \o CachedBranchMatches(cache, Tail(repos))

RECURSIVE CachedPullRequestMatches(_, _)
CachedPullRequestMatches(cache, repos) ==
  IF repos = <<>> THEN <<>>
  ELSE LET repo == Head(repos)
           here == IF HasEntry(cache, KeyOf(repo))
                      /\ cache.repositories[KeyOf(repo)].hasPullRequests
                   THEN PullRequestMatchesOf(repo, cache.repositories[KeyOf(repo)].pullRequests)
                   ELSE <<>>
       IN here \o CachedPullRequestMatches(cache, Tail(repos))

\* a variant of the filter that looks at the cached collection
BranchesCached(cache, repo) ==
  HasEntry(cache, KeyOf(repo)) /\ cache.repositories[KeyOf(repo)].hasBranches

BranchesProcessed(cache, repo) ==
  HasEntry(cache, KeyOf(repo)) /\ cache.repositories[KeyOf(repo)].branchesProcessed

PRsProcessed(cache, repo) ==
  HasEntry(cache, KeyOf(repo)) /\ cache.repositories[KeyOf(repo)].prsProcessed

\* a variant of the counter's start that ignores what the cache already has
InitialProcessedZero(all, unprocessed) == 0

\* processedRepos after the "Resuming search" branch
InitialProcessed(all, unprocessed) ==
  IF Len(unprocessed) < Len(all) THEN Len(all) - Len(unprocessed) ELSE 0

\* a variant that saves every sixth repository
AtCheckpointLate(processed) == processed % (CheckpointEvery + 1) = 0

\* if (processedRepos % 5 === 0) await persistCache()
AtCheckpoint(processed) == processed % CheckpointEvery = 0

\* a variant of the cap check that stops one repository late
CapReachedLate(opts, processed) == opts.maxRepos > 0 /\ processed > opts.maxRepos

\* the cap check after a repository: break
CapReached(opts, processed) == opts.maxRepos > 0 /\ processed >= opts.maxRepos

\* main's checkpoint after resolving, then the start of findMatchingBranches:
\* getCache(options.forceRefresh) and an empty repositories array
EnterFindMatchingBranches ==
  /\ pc = "acquire"
  /\ acqIdx > Len(Sources(options))
  /\ ctx = "main"
  /\ disk' = persistCache(cacheInstance, disk)
  /\ cacheInstance' = getCache(cacheInstance, options.forceRefresh, disk')
  /\ ctx' = "branches"
  /\ acqIdx' = 1
  /\ repositories' = <<>>
  /\ UNCHANGED <<mvars, options, pc, mainRepos, unprocessedRepos, loopIdx, fetched,
                 processedRepos, matchingBranches, matchingPRs, calls,
                 runs, crashes, failures, history>>

\* the loop over cached branches, the filter and the counter's start
ScanCachedBranches ==
  /\ pc = "acquire"
  /\ acqIdx > Len(Sources(options))
  /\ ctx = "branches"
  /\ LET cache == cacheInstance.data
         unprocessed == SelectSeq(repositories, LAMBDA r : ~BranchesProcessed(cache, r))
     IN /\ matchingBranches' = CachedBranchMatches(cache, repositories)
        /\ unprocessedRepos' = unprocessed
        /\ processedRepos' = InitialProcessed(repositories, unprocessed)
        /\ pc' = IF unprocessed = <<>> THEN "branches_end" ELSE "branches_fetch"
  /\ loopIdx' = 1
  /\ UNCHANGED <<mvars, disk, cacheInstance, options, ctx, acqIdx, mainRepos,
                 repositories, fetched, matchingPRs, calls, runs,
                 crashes, failures, history>>

\* what octokit.paginate rejects with when the listing of a repository
\* fails: the Octokit instance is built without a throttling plugin and
\* paginate ignores a fourth argument, so a rate-limit response rejects like
\* any other error response.  The provider rate-limits the listings of o/r
\* and fails the others with a server error.
ListingError(repoKey) == IF repoKey = <<"o","/","r">> THEN "rate limit" ELSE "error"

\* a variant of the catch block that passes the error on
CatchRethrowing(error) == [returns |-> FALSE, value |-> <<>>]

\* the catch block of getBranches and of getPullRequests: log (with its own
\* line for a message that includes 'rate limit') and return []
CatchListing(error) == [returns |-> TRUE, value |-> <<>>]

getBranches ==
  /\ pc = "branches_fetch"
  /\ LET cache == cacheInstance.data
         repo == unprocessedRepos[loopIdx]
         repoKey == RepoKey(repo.owner, repo.name)
         result == Take(ProviderBranches(repo), options.maxBranches)
     IN IF HasEntry(cache, repoKey) /\ cache.repositories[repoKey].hasBranches
        THEN /\ fetched' = cache.repositories[repoKey].branches
             /\ pc' = "branches_process"
             /\ UNCHANGED <<cacheInstance, disk, calls, failures, history>>
        ELSE /\ calls' = Append(calls, Call("repos.listBranches", repoKey))
             /\ \/ /\ Commit(cacheBranches(cache, repo.owner, repo.name, result))
                   /\ fetched' = result
                   /\ pc' = "branches_process"
                   /\ UNCHANGED <<failures, history>>
                \/ /\ CanFail
                   /\ failures' = failures + 1
                   /\ fetched' = CatchListing(ListingError(repoKey)).value
                   /\ pc' = IF CatchListing(ListingError(repoKey)).returns
                            THEN "branches_process" ELSE "failed"
                   /\ history' = [history EXCEPT !.failedBranches = @ \cup {repoKey}]
                   /\ UNCHANGED <<cacheInstance, disk>>
  /\ UNCHANGED <<mvars, options, ctx, acqIdx, mainRepos, repositories,
                 unprocessedRepos, loopIdx, processedRepos, matchingBranches,
                 matchingPRs, runs, crashes>>

\* the rest of the loop body: matches, counter, mark, checkpoint, cap.  The
\* mark is made on the local cache object, which shares its repositories
\* map with cacheInstance.
ProcessBranches ==
  /\ pc = "branches_process"
  /\ LET repo == unprocessedRepos[loopIdx]
         marked == markRepositoryBranchesProcessed(cacheInstance.data, repo.owner, repo.name)
         processed == processedRepos + 1
     IN /\ matchingBranches' = matchingBranches \o BranchMatchesOf(repo, fetched)
        /\ processedRepos' = processed
        /\ cacheInstance' = [loaded |-> TRUE, data |-> marked]
        /\ disk' = IF AtCheckpoint(processed) THEN File(marked) ELSE disk
        /\ pc' = IF CapReached(options, processed) \/ loopIdx + 1 > Len(unprocessedRepos)
                 THEN "branches_end" ELSE "branches_fetch"
  /\ loopIdx' = loopIdx + 1
  /\ fetched' = <<>>
  /\ UNCHANGED <<mvars, options, ctx, acqIdx, mainRepos, repositories,
                 unprocessedRepos, matchingPRs, calls, runs, crashes,
                 failures, history>>

\* the final persistCache of the pass and main's checkpoint after it
FinishBranches ==
  /\ pc = "branches_end"
  /\ disk' = persistCache(cacheInstance, disk)
  /\ pc' = IF options.includePrs THEN "prs_start" ELSE "done"
  /\ UNCHANGED <<mvars, cacheInstance, options, ctx, acqIdx, mainRepos, repositories,
                 unprocessedRepos, loopIdx, fetched, processedRepos, matchingBranches,
                 matchingPRs, calls, runs, crashes, failures, history>>

\* findMatchingPullRequests(options, repositories) up to its fetch loop
ScanCachedPullRequests ==
  /\ pc = "prs_start"
  /\ LET instance == getCache(cacheInstance, options.forceRefresh, disk)
         cache == instance.data
         unprocessed == SelectSeq(mainRepos, LAMBDA r : ~PRsProcessed(cache, r))
     IN /\ cacheInstance' = instance
        /\ matchingPRs' = CachedPullRequestMatches(cache, mainRepos)
        /\ unprocessedRepos' = unprocessed
        /\ processedRepos' = InitialProcessed(mainRepos, unprocessed)
        /\ pc' = IF unprocessed = <<>> THEN "prs_end" ELSE "prs_fetch"
  /\ repositories' = mainRepos
  /\ loopIdx' = 1
  /\ UNCHANGED <<mvars, disk, options, ctx, acqIdx, mainRepos, fetched,
                 matchingBranches, calls, runs, crashes, failures, history>>

getPullRequests ==
  /\ pc = "prs_fetch"
  /\ LET cache == cacheInstance.data
         repo == unprocessedRepos[loopIdx]
         repoKey == RepoKey(repo.owner, repo.name)
         result == Take(ProviderPRs(repo, options.prStatus), options.maxPrs)
     IN IF HasEntry(cache, repoKey) /\ cache.repositories[repoKey].hasPullRequests
        THEN /\ fetched' = cache.repositories[repoKey].pullRequests
             /\ pc' = "prs_process"
             /\ UNCHANGED <<cacheInstance, disk, calls, failures, history>>
        ELSE /\ calls' = Append(calls, Call("pulls.list", repoKey))
             /\ \/ /\ Commit(cachePullRequests(cache, repo.owner, repo.name, result))
                   /\ fetched' = result
                   /\ pc' = "prs_process"
                   /\ UNCHANGED <<failures, history>>
                \/ /\ CanFail
                   /\ failures' = failures + 1
                   /\ fetched' = CatchListing(ListingError(repoKey)).value
                   /\ pc' = IF CatchListing(ListingError(repoKey)).returns
                            THEN "prs_process" ELSE "failed"
                   /\ history' = [history EXCEPT !.failedPRs = @ \cup {repoKey}]
                   /\ UNCHANGED <<cacheInstance, disk>>
  /\ UNCHANGED <<mvars, options, ctx, acqIdx, mainRepos, repositories,
                 unprocessedRepos, loopIdx, processedRepos, matchingBranches,
                 matchingPRs, runs, crashes>>

ProcessPullRequests ==
  /\ pc = "prs_process"
  /\ LET repo == unprocessedRepos[loopIdx]
         marked == markRepositoryPRsProcessed(cacheInstance.data, repo.owner, repo.name)
         processed == processedRepos + 1
     IN /\ matchingPRs' = matchingPRs \o PullRequestMatchesOf(repo, fetched)
        /\ processedRepos' = processed
        /\ cacheInstance' = [loaded |-> TRUE, data |-> marked]
        /\ disk' = IF AtCheckpoint(processed) THEN File(marked) ELSE disk
        /\ pc' = IF CapReached(options, processed) \/ loopIdx + 1 > Len(unprocessedRepos)
                 THEN "prs_end" ELSE "prs_fetch"
  /\ loopIdx' = loopIdx + 1
  /\ fetched' = <<>>
  /\ UNCHANGED <<mvars, options, ctx, acqIdx, mainRepos, repositories,
                 unprocessedRepos, matchingBranches, calls, runs,
                 crashes, failures, history>>

FinishPullRequests ==
  /\ pc = "prs_end"
  /\ disk' = persistCache(cacheInstance, disk)
  /\ pc' = "done"
  /\ UNCHANGED <<mvars, cacheInstance, options, ctx, acqIdx, mainRepos, repositories,
                 unprocessedRepos, loopIdx, fetched, processedRepos, matchingBranches,
                 matchingPRs, calls, runs, crashes, failures, history>>

Next ==
  \/ RejectArguments
  \/ StartRun
  \/ Crash
  \/ CrashDuringSave
  \/ getTopRepos
  \/ getRepositories
  \/ getSpecificRepository
  \/ EnterFindMatchingBranches
  \/ ScanCachedBranches
  \/ getBranches
  \/ ProcessBranches
  \/ FinishBranches
  \/ ScanCachedPullRequests
  \/ getPullRequests
  \/ ProcessPullRequests
  \/ FinishPullRequests

Spec == Init /\ [][Next]_vars

(***************************************************************************)
(* Statements about the scan                                               *)
(***************************************************************************)
Range(s) == {s[k] : k \in 1..Len(s)}

Count(s, x) == Cardinality({k \in 1..Len(s) : s[k] = x})

\* the same elements, each the same number of times
SameBag(a, b) == \A x \in Range(a) \cup Range(b) : Count(a, x) = Count(b, x)

NoDuplicates(s) == \A i, j \in 1..Len(s) : s[i] = s[j] => i = j

CallsOf(op) == SelectSeq(calls, LAMBDA c : c.op = op)

Called(op, key) == \E k \in 1..Len(calls) : calls[k] = [op |-> op, arg |-> key]

InBranchPass == pc \in {"branches_fetch", "branches_process", "branches_end"}
InPRPass == pc \in {"prs_fetch", "prs_process", "prs_end"}
BranchPassEnded == pc \in {"prs_start", "prs_fetch", "prs_process", "prs_end", "done"}

\* the loop iterations of the running pass that have called the collector
Started == IF pc \in {"branches_process", "prs_process"} THEN loopIdx ELSE loopIdx - 1

\* the loop iterations of the running pass that are complete
Handled == loopIdx - 1

\* what one uninterrupted run on an empty cache resolves when every provider
\* call succeeds: the first N of the star ranking, every owner's listing and
\* every explicit entry, in this order
RefSourceRepos(src) ==
  IF src.kind = "top" THEN SubSeq(ProviderTop, 1,
       IF options.topRepos < Len(ProviderTop) THEN options.topRepos ELSE Len(ProviderTop))
  ELSE IF src.kind = "owner"
  THEN SelectSeq(ProviderRepos, LAMBDA r : r.owner = src.arg)
  ELSE SelectSeq(ProviderRepos, LAMBDA r :
         r.owner \o <<"/">> \o r.name = [k \in 1..Len(src.arg) |-> FoldChar(src.arg[k])])

RECURSIVE RefRepos(_)
RefRepos(srcs) ==
  IF srcs = <<>> THEN <<>> ELSE RefSourceRepos(Head(srcs)) \o RefRepos(Tail(srcs))

RECURSIVE RefBranchMatches(_)
\* ... and the branch matches that run returns
RefBranchMatches(repos) ==
  IF repos = <<>> THEN <<>>
  ELSE BranchMatchesOf(Head(repos), ProviderBranches(Head(repos)))
       \o RefBranchMatches(Tail(repos))

\* C1: a run restarted after an interruption (same configuration, no
\* force-refresh, no cap, no provider failure) returns the branch matches of
\* one uninterrupted run, each as often as that run does.
C1_ResumedRunReturnsSameMatches ==
  (/\ BranchPassEnded
   /\ crashes >= 1
   /\ history.plain
   /\ failures = 0
   /\ options.maxRepos = 0)
  => SameBag(matchingBranches, RefBranchMatches(RefRepos(Sources(options))))

\* C2: the run after a completed run with the same configuration (neither
\* with force-refresh or clear-cache) issues no provider call and returns
\* what the first run returned.
C2_SecondRunFetchesNothing ==
  (history.prevDone /\ history.plain /\ pc # "idle")
  => /\ calls = <<>>
     /\ pc = "done" => /\ matchingBranches = history.prevBranches
                       /\ matchingPRs = history.prevPRs

PersistedBranchFlag(key) ==
  /\ disk.present
  /\ key \in DOMAIN disk.data.repositories
  /\ disk.data.repositories[key].branchesProcessed

PersistedPRFlag(key) ==
  /\ disk.present
  /\ key \in DOMAIN disk.data.repositories
  /\ disk.data.repositories[key].prsProcessed

\* C3: when a pass has ended, every repository whose fetch failed in it has
\* its flag set in the file, and the next run without force-refresh or
\* clear-cache does not list its branches (PRs) again.
C3_FailedFetchIsMarkedProcessed ==
  /\ BranchPassEnded => \A key \in history.failedBranches : PersistedBranchFlag(key)
  /\ pc = "done" => \A key \in history.failedPRs : PersistedPRFlag(key)
  /\ (Running /\ ~options.forceRefresh /\ ~options.clearCache) =>
       /\ \A key \in history.prevFailedBranches : ~Called("repos.listBranches", key)
       /\ \A key \in history.prevFailedPRs : ~Called("pulls.list", key)

\* C4: in a force-refresh run everything in the cache comes from a provider
\* call of this run, no repository is skipped because of a flag, and every
\* repository the loops have handled had its collection requested from the
\* provider in this run.
C4_ForceRefreshUsesNothingPersisted ==
  (options.forceRefresh /\ pc # "idle") =>
    LET cache == cacheInstance.data
    IN /\ \A key \in DOMAIN cache.repositories :
            /\ cache.repositories[key].hasBranches => Called("repos.listBranches", key)
            /\ cache.repositories[key].hasPullRequests => Called("pulls.list", key)
            /\ \/ Called("repos.get", key)
               \/ Called("repos.listBranches", key)
               \/ Called("pulls.list", key)
               \/ CallsOf("search.repos") # <<>>
               \/ \E owner \in Range(options.owners) : Called("repos.listForOwner", owner)
       /\ cache.topRepos.present => CallsOf("search.repos") # <<>>
       /\ \A owner \in DOMAIN cache.ownerRepos : Called("repos.listForOwner", owner)
       /\ InBranchPass =>
            /\ unprocessedRepos = repositories
            /\ \A k \in 1..Started : Called("repos.listBranches", KeyOf(unprocessedRepos[k]))
       /\ InPRPass =>
            /\ unprocessedRepos = mainRepos
            /\ \A k \in 1..Started : Called("pulls.list", KeyOf(unprocessedRepos[k]))

\* C4 witness: a force-refresh run, started on the file of a completed run
\* that had found matches, has completed both passes with provider calls.
C4_Witness ==
  /\ options.forceRefresh
  /\ ~options.clearCache
  /\ pc = "done"
  /\ history.prevDone
  /\ history.prevBranches # <<>>
  /\ options.includePrs
  /\ CallsOf("repos.listBranches") # <<>>
  /\ CallsOf("pulls.list") # <<>>

\* C5: with a cap M >= 1 the branch pass calls the collector for at most M
\* repositories (and lists the branches of at most M), and it goes on to a
\* further repository only while the counter is below M.
C5_CapStopsBranchPass ==
  options.maxRepos >= 1 =>
    /\ Len(CallsOf("repos.listBranches")) <= options.maxRepos
    /\ InBranchPass => Started <= options.maxRepos
    /\ (pc = "branches_fetch" /\ loopIdx > 1) => processedRepos < options.maxRepos

\* C5 witness: the pass stopped at the cap with repositories left in the list
\* and outside a checkpoint boundary.
C5_Witness ==
  /\ options.maxRepos >= 1
  /\ pc = "branches_end"
  /\ processedRepos = options.maxRepos
  /\ loopIdx <= Len(unprocessedRepos)
  /\ processedRepos % 5 # 0

\* C6 as written: the counter compared against the cap is the number of
\* repositories handled in the current run.
C6_CounterCountsCurrentRun ==
  (InBranchPass \/ InPRPass) => processedRepos = Handled

\* C6 amended: the counter starts at the number of repositories of the list
\* that the loaded cache already marks processed and grows by one per
\* repository handled in this run; the already processed repositories do
\* consume the cap, and a run still handles one repository when they alone
\* reach it.
C6_CounterIncludesAlreadyProcessed ==
  (InBranchPass \/ InPRPass) =>
    LET already == Len(repositories) - Len(unprocessedRepos)
    IN /\ processedRepos = already + Handled
       /\ (options.maxRepos >= 1 /\ Handled >= 1) =>
            \/ Handled = 1
            \/ already + Handled <= options.maxRepos

\* C6 witness: a resumed capped pass whose counter is ahead of the
\* repositories handled in this run.
C6_Witness ==
  /\ pc = "branches_end"
  /\ options.maxRepos >= 1
  /\ Handled >= 1
  /\ processedRepos > Handled
  /\ Len(repositories) - Len(unprocessedRepos) >= 1

\* C7: the resolved repository list has no key twice.
C7_AcquiredListHasNoDuplicateKeys ==
  /\ NoDuplicates([k \in 1..Len(mainRepos) |-> KeyOf(mainRepos[k])])
  /\ NoDuplicates([k \in 1..Len(repositories) |-> KeyOf(repositories[k])])


(***************************************************************************)
(* Statements about failures, limits and the command line                  *)
(***************************************************************************)
\* the repository the fetch loop is at
CurrentRepo == unprocessedRepos[loopIdx]

LastCall == calls[Len(calls)]

LastCallIs(op, key) == calls # <<>> /\ LastCall = [op |-> op, arg |-> key]

HoldsBranches(cache, key) ==
  key \in DOMAIN cache.repositories /\ cache.repositories[key].hasBranches

HoldsPullRequests(cache, key) ==
  key \in DOMAIN cache.repositories /\ cache.repositories[key].hasPullRequests

\* the collector has just returned from a listing that the provider failed
BranchListingJustFailed ==
  /\ pc = "branches_process"
  /\ LastCallIs("repos.listBranches", KeyOf(CurrentRepo))
  /\ ~HoldsBranches(cacheInstance.data, KeyOf(CurrentRepo))

PRListingJustFailed ==
  /\ pc = "prs_process"
  /\ LastCallIs("pulls.list", KeyOf(CurrentRepo))
  /\ ~HoldsPullRequests(cacheInstance.data, KeyOf(CurrentRepo))

\* the loop goes on with the next repository, or ends because the list or
\* the cap is exhausted
LoopGoesOn(fetchPc, endPc) ==
  /\ pc' \in {fetchPc, endPc}
  /\ loopIdx' = loopIdx + 1
  /\ pc' = fetchPc => loopIdx' <= Len(unprocessedRepos)
  /\ pc' = endPc =>
       \/ loopIdx = Len(unprocessedRepos)
       \/ options.maxRepos >= 1 /\ processedRepos' >= options.maxRepos

C12_Step ==
  /\ (pc = "branches_fetch" /\ failures' > failures) =>
       /\ pc' = "branches_process"
       /\ fetched' = <<>>
       /\ matchingBranches' = matchingBranches
  /\ (pc = "prs_fetch" /\ failures' > failures) =>
       /\ pc' = "prs_process"
       /\ fetched' = <<>>
       /\ matchingPRs' = matchingPRs
  /\ (BranchListingJustFailed /\ crashes' = crashes) =>
       /\ matchingBranches' = matchingBranches
       /\ LoopGoesOn("branches_fetch", "branches_end")
  /\ (PRListingJustFailed /\ crashes' = crashes) =>
       /\ matchingPRs' = matchingPRs
       /\ LoopGoesOn("prs_fetch", "prs_end")

\* C12: a provider failure inside getBranches or getPullRequests does not
\* reach the caller: the call returns an empty collection, the repository
\* adds no match, and the loop goes on with the next repository of the list
\* (or ends because the list or the cap is exhausted).
C12_ListingFailureIsZeroResults == [][C12_Step]_vars

\* C12 witness: the branch listing of a repository failed and the loop is at
\* the next repository.
C12_Witness ==
  /\ pc = "branches_fetch"
  /\ loopIdx >= 2
  /\ KeyOf(unprocessedRepos[loopIdx - 1]) \in history.failedBranches
  /\ ~HoldsBranches(cacheInstance.data, KeyOf(unprocessedRepos[loopIdx - 1]))
  /\ failures >= 1

\* C13: a listing that met a rate-limit signal is retried until it
\* completes: when the collector returns, the collection is in the cache,
\* and the repository is never marked processed without it.
C13_RateLimitedListingCompletes ==
  /\ \A key \in {k \in history.failedBranches : ListingError(k) = "rate limit"} :
       /\ (pc = "branches_process" /\ KeyOf(CurrentRepo) = key)
            => HoldsBranches(cacheInstance.data, key)
       /\ (key \in DOMAIN cacheInstance.data.repositories
           /\ cacheInstance.data.repositories[key].branchesProcessed)
            => HoldsBranches(cacheInstance.data, key)
  /\ \A key \in {k \in history.failedPRs : ListingError(k) = "rate limit"} :
       /\ (pc = "prs_process" /\ KeyOf(CurrentRepo) = key)
            => HoldsPullRequests(cacheInstance.data, key)
       /\ (key \in DOMAIN cacheInstance.data.repositories
           /\ cacheInstance.data.repositories[key].prsProcessed)
            => HoldsPullRequests(cacheInstance.data, key)

\* C14: a failed listing of an owner's repositories does not end the run
\* with a failure status.
C14_OwnerListingFailureIsSkipped ==
  (calls # <<>> /\ LastCall.op = "repos.listForOwner") => pc # "failed"

\* the message has the text as one of its parts
MessageContains(message, text) == \E k \in 1..Len(message) : message[k] = text

C15_Step ==
  (pc = "acquire" /\ Len(history'.thrown) > Len(history.thrown)
   /\ calls' # <<>> /\ calls'[Len(calls')].op = "repos.get")
  => /\ MessageContains(history'.thrown[Len(history'.thrown)], "Failed to fetch repository ")
     /\ cacheInstance' = cacheInstance
     /\ disk' = disk
     /\ mainRepos' = mainRepos
     /\ repositories' = repositories
     /\ pc' = "acquire"
     /\ acqIdx' = acqIdx + 1

\* C15: a failed fetch of an explicit owner/repo entry raises an error whose
\* message contains "Failed to fetch repository", leaves the cache and the
\* file as they were, adds nothing to the repository list, and the resolving
\* goes on with the next entry.
C15_FailedRepositoryIsSkipped == [][C15_Step]_vars

\* C15 witness: the first explicit entry failed and main resolved the
\* second one.
C15_Witness ==
  /\ pc = "acquire"
  /\ ctx = "main"
  /\ acqIdx > Len(Sources(options))
  /\ Len(options.repos) = 2
  /\ history.thrown # <<>>
  /\ mainRepos = <<[owner |-> <<"q">>, name |-> <<"t">>]>>

IsPrefixOf(p, s) ==
  /\ Len(p) <= Len(s)
  /\ \A k \in 1..Len(p) : p[k] = s[k]

C16_Step ==
  /\ (pc = "branches_fetch" /\ Len(calls') > Len(calls) /\ failures' = failures) =>
       /\ Len(fetched') <= options.maxBranches
       /\ IsPrefixOf(fetched', ProviderBranches(CurrentRepo))
       /\ cacheInstance'.data.repositories[KeyOf(CurrentRepo)].branches = fetched'
       /\ disk'.data.repositories[KeyOf(CurrentRepo)].branches = fetched'
  /\ (pc = "prs_fetch" /\ Len(calls') > Len(calls) /\ failures' = failures) =>
       /\ Len(fetched') <= options.maxPrs
       /\ IsPrefixOf(fetched', ProviderPRs(CurrentRepo, options.prStatus))
       /\ cacheInstance'.data.repositories[KeyOf(CurrentRepo)].pullRequests = fetched'
       /\ disk'.data.repositories[KeyOf(CurrentRepo)].pullRequests = fetched'

\* C16: the collection that getBranches (getPullRequests) fetches, returns
\* and caches has at most maxBranches (maxPrs) items and is a prefix of the
\* sequence the provider returned.
C16_FetchedCollectionIsTruncated == [][C16_Step]_vars

\* C16 witness: with both limits at 1, getPullRequests has returned one of
\* the provider's two open PRs, and the cache of this run holds one of the
\* repository's two branches.
C16_Witness ==
  /\ pc = "prs_process"
  /\ options.maxPrs = 1
  /\ options.maxBranches = 1
  /\ LastCallIs("pulls.list", KeyOf(CurrentRepo))
  /\ Len(fetched) = 1
  /\ Len(ProviderPRs(CurrentRepo, options.prStatus)) = 2
  /\ Called("repos.listBranches", KeyOf(CurrentRepo))
  /\ Len(cacheInstance.data.repositories[KeyOf(CurrentRepo)].branches) = 1
  /\ Len(ProviderBranches(CurrentRepo)) = 2

\* C18: the PR matches of a run all have a status its filter allows and
\* come from at most maxPrs PRs per repository.
C18_PRMatchesRespectFilterAndCap ==
  /\ \A k \in 1..Len(matchingPRs) :
       options.prStatus = "all" \/ matchingPRs[k].status = options.prStatus
  /\ \A key \in {matchingPRs[k].repository : k \in 1..Len(matchingPRs)} :
       Cardinality({matchingPRs[k].prNumber :
                      k \in {i \in 1..Len(matchingPRs) : matchingPRs[i].repository = key}})
         <= options.maxPrs

\* the number of "/" in s
SlashCount(s) == Cardinality({k \in 1..Len(s) : s[k] = "/"})

\* no owner, no explicit repository and no top-N count, or an explicit
\* repository that is not two "/"-separated parts
BadArguments(opts) ==
  \/ opts.owners = <<>> /\ opts.repos = <<>> /\ opts.topRepos = 0
  \/ \E k \in 1..Len(opts.repos) : SlashCount(opts.repos[k]) # 1

\* C19: a command line without a source, or with an explicit repository that
\* is not exactly two "/"-separated parts, is rejected before any provider
\* call and before the cache is read, cleared or written.
C19_BadArgumentsAreRejectedFirst ==
  BadArguments(options) =>
    /\ pc \in {"idle", "rejected"}
    /\ calls = <<>>
    /\ disk = NoFile
    /\ cacheInstance = NotLoaded
    /\ mainRepos = <<>>

\* C19 witness: a command line with --clear-cache and a three-part
\* repository has been rejected.
C19_Witness ==
  /\ pc = "rejected"
  /\ options.clearCache
  /\ \E k \in 1..Len(options.repos) : SlashCount(options.repos[k]) = 2
  /\ runs >= 1

(***************************************************************************)
(* Statements about resuming, the flags and the cache's content            *)
(***************************************************************************)
KeysOf(repos) == [k \in 1..Len(repos) |-> KeyOf(repos[k])]

BranchPairs == [k \in 1..Len(matchingBranches) |->
                  <<matchingBranches[k].repository, matchingBranches[k].branch>>]

PRPairs == [k \in 1..Len(matchingPRs) |->
              <<matchingPRs[k].repository, matchingPRs[k].prNumber>>]

\* C21: when the resolved list names no repository twice, the branch match
\* list of a run has each (repository, branch name) pair at most once and
\* the PR match list each (repository, PR number) pair at most once,
\* whatever the cache held when the run started.
C21_MatchListsHaveNoRepeatedPair ==
  (NoDuplicates(KeysOf(repositories)) /\ NoDuplicates(KeysOf(mainRepos))) =>
    /\ NoDuplicates(BranchPairs)
    /\ NoDuplicates(PRPairs)

\* the flag of the pass that is running, read from the entry itself
FlagSet(cache, key) ==
  /\ key \in DOMAIN cache.repositories
  /\ IF InPRPass THEN cache.repositories[key].prsProcessed
     ELSE cache.repositories[key].branchesProcessed

\* the repositories the running pass has passed to its collector
Passed == {KeyOf(unprocessedRepos[k]) : k \in 1..Started}

\* what the filter of the running pass did: a repository it left out has its
\* flag set, and one it kept has the flag unset until the loop has handled
\* its key
FilterFollowsFlag ==
  /\ \A k \in 1..Len(repositories) :
       (\A j \in 1..Len(unprocessedRepos) : unprocessedRepos[j] # repositories[k])
         => FlagSet(cacheInstance.data, KeyOf(repositories[k]))
  /\ \A k \in (Handled + 1)..Len(unprocessedRepos) :
       \/ ~FlagSet(cacheInstance.data, KeyOf(unprocessedRepos[k]))
       \/ \E j \in 1..Handled : KeyOf(unprocessedRepos[j]) = KeyOf(unprocessedRepos[k])

PassEnded == pc \in {"branches_end", "prs_end"}

Keeps(old, new) ==
  /\ \A key \in DOMAIN old.repositories :
       /\ key \in DOMAIN new.repositories
       /\ old.repositories[key].hasBranches =>
            /\ new.repositories[key].hasBranches
            /\ new.repositories[key].branches = old.repositories[key].branches
       /\ old.repositories[key].hasPullRequests =>
            /\ new.repositories[key].hasPullRequests
            /\ new.repositories[key].pullRequests = old.repositories[key].pullRequests
       /\ old.repositories[key].processed => new.repositories[key].processed
       /\ old.repositories[key].branchesProcessed => new.repositories[key].branchesProcessed
       /\ old.repositories[key].prsProcessed => new.repositories[key].prsProcessed
  /\ old.topRepos.present => new.topRepos.present
  /\ \A owner \in DOMAIN old.ownerRepos : owner \in DOMAIN new.ownerRepos

C23_Step ==
  (~options'.forceRefresh /\ ~options'.clearCache /\ crashes' = crashes) =>
    /\ disk.present => (disk'.present /\ Keeps(disk.data, disk'.data))
    /\ (cacheInstance.loaded /\ runs' = runs) =>
         (cacheInstance'.loaded /\ Keeps(cacheInstance.data, cacheInstance'.data))

ListsAreInMap(cache) ==
  /\ \A owner \in DOMAIN cache.ownerRepos :
       \A k \in 1..Len(cache.ownerRepos[owner]) :
         KeyOf(cache.ownerRepos[owner][k]) \in DOMAIN cache.repositories
  /\ \A k \in 1..Len(cache.topRepos.data) :
       KeyOf(cache.topRepos.data[k]) \in DOMAIN cache.repositories

\* C24: in the cache in memory and in the file, every repository of an
\* owner's list or of the top list has an entry in the repositories map
\* under its "owner/name" key.
C24_ListedRepositoriesHaveEntries ==
  /\ ListsAreInMap(cacheInstance.data)
  /\ ListsAreInMap(disk.data)

\* C24 witness: a force-refresh run has recorded the two repositories of
\* owner o again after the cache was emptied, and the file has the list and
\* both entries.
C24_Witness ==
  /\ options.forceRefresh
  /\ pc = "branches_end"
  /\ OwnerO \in DOMAIN disk.data.ownerRepos
  /\ Len(disk.data.ownerRepos[OwnerO]) = 2
  /\ Len(CallsOf("repos.listForOwner")) = 2
  /\ {KeyOf(disk.data.ownerRepos[OwnerO][k]) : k \in 1..2} \subseteq DOMAIN disk.data.repositories

\* C26: an interruption leaves in the file a complete snapshot: the one that
\* was there before, or the one the interrupted save was writing.
C26_Step ==
  crashes' > crashes => disk' \in {disk, File(cacheInstance.data)}

C26_InterruptionLeavesACompleteSnapshot == [][C26_Step]_vars

\* C27: the run works on one cache from start to end, so the file written
\* at the end of the run holds every branch collection the run has fetched
\* and every flag it has set.
C27_EndOfRunFileHasWhatTheRunRecorded ==
  pc = "done" =>
    \A key \in {calls[k].arg : k \in 1..Len(calls)} :
      (Called("repos.listBranches", key) /\ key \notin history.failedBranches) =>
        /\ HasEntry(disk.data, key)
        /\ disk.data.repositories[key].hasBranches
        /\ disk.data.repositories[key].branchesProcessed

\* the branch pass has ended and its list has not been replaced
AfterBranchPass ==
  \/ pc \in {"branches_end", "prs_start"}
  \/ pc = "done" /\ ~options.includePrs

\* C28: a run with a cap M >= 1 and without force-refresh or clear-cache
\* that found repositories without flag has set the flag of at least one of
\* them when its branch pass ends, and the flag is in the file once the pass
\* has saved.
C28_CappedRunMarksAFurtherRepository ==
  (/\ AfterBranchPass
   /\ options.maxRepos >= 1
   /\ ~options.forceRefresh
   /\ ~options.clearCache
   /\ unprocessedRepos # <<>>) =>
     \E k \in 1..Len(unprocessedRepos) :
       /\ BranchesProcessed(cacheInstance.data, unprocessedRepos[k])
       /\ pc # "branches_end" => BranchesProcessed(disk.data, unprocessedRepos[k])

\* the key a --repo argument is requested under
RequestedKey(arg) == RepoKey(parseRepoString(arg).owner, parseRepoString(arg).repo)

\* C29: in one run the provider is asked at most once for the top
\* repositories (one sequence of pages), at most once for the list of each
\* owner and at most once for each explicit repository.
C29_EachSourceIsFetchedOnce ==
  /\ Len(CallsOf("search.repos")) <= TopFetch(ProviderTop, options.topRepos).pages
  /\ \A owner \in Range(options.owners) :
       Len(SelectSeq(calls, LAMBDA c : c = Call("repos.listForOwner", owner))) <= 1
  /\ \A arg \in Range(options.repos) :
       Len(SelectSeq(calls, LAMBDA c : c = Call("repos.get", RequestedKey(arg)))) <= 1

\* the position of a repository key in a list of repositories
PositionIn(repos, key) == CHOOSE k \in 1..Len(repos) : KeyOf(repos[k]) = key

\* the matches of a match list come in the order of the repository list
InListOrder(matches, repos) ==
  \A i, j \in 1..Len(matches) :
    i < j => PositionIn(repos, matches[i].repository) <= PositionIn(repos, matches[j].repository)

\* C30: when the resolved list names no repository twice, the matches of a
\* repository that is earlier in the list precede the matches of every later
\* repository, in the branch match list and in the PR match list.
C30_MatchesFollowListOrder ==
  /\ (InBranchPass /\ NoDuplicates(KeysOf(repositories))) =>
       InListOrder(matchingBranches, repositories)
  /\ (InPRPass /\ NoDuplicates(KeysOf(mainRepos))) =>
       InListOrder(matchingPRs, mainRepos)

\* the final save of a pass has been made and nothing has been recorded since
PassSaved ==
  \/ pc = "prs_start"
  \/ pc = "done"

\* everything the cache in memory holds for a repository is in the file
EntriesAreSaved ==
  /\ disk.present
  /\ ~disk.torn
  /\ \A key \in DOMAIN cacheInstance.data.repositories :
       /\ key \in DOMAIN disk.data.repositories
       /\ disk.data.repositories[key] = cacheInstance.data.repositories[key]

\* C31: after the final save of a pass the file holds every entry of the
\* cache in memory with its flags and collections; after the branch pass
\* that is every branch collection the pass fetched and the flag of every
\* repository the loop marked.
C31_PassEndSavesFlagsAndCollections ==
  /\ PassSaved => EntriesAreSaved
  /\ pc = "prs_start" =>
       /\ \A key \in {calls[k].arg : k \in 1..Len(calls)} :
            (Called("repos.listBranches", key) /\ key \notin history.failedBranches) =>
              /\ HasEntry(disk.data, key)
              /\ disk.data.repositories[key].hasBranches
       /\ \A k \in 1..(loopIdx - 1) :
            HasEntry(cacheInstance.data, KeyOf(unprocessedRepos[k])) =>
              BranchesProcessed(disk.data, unprocessedRepos[k])

\* C31 witness: the branch pass stopped at the cap after a listing that
\* failed; its flag, set on the local cache and followed by no checkpoint,
\* is in the file after the final save.
C31_Witness ==
  /\ pc = "done"
  /\ ~options.includePrs
  /\ options.maxRepos >= 1
  /\ loopIdx <= Len(unprocessedRepos)
  /\ \E key \in history.failedBranches :
       /\ HasEntry(disk.data, key)
       /\ disk.data.repositories[key].branchesProcessed
       /\ ~disk.data.repositories[key].hasBranches

\* a step of getTopRepos: the process is at the top-repositories source and
\* is not killed
TopStep == AtSource("top") /\ crashes' = crashes

\* the cached top snapshot has the requested count and as many repositories
ExactTopSnapshot ==
  /\ cacheInstance.data.topRepos.present
  /\ cacheInstance.data.topRepos.count = options.topRepos
  /\ Len(cacheInstance.data.topRepos.data) = options.topRepos

\* the repositories the step has appended to the list being resolved
TopPushed ==
  IF ctx = "main" THEN SubSeq(mainRepos', Len(mainRepos) + 1, Len(mainRepos'))
  ELSE SubSeq(repositories', Len(repositories) + 1, Len(repositories'))

TopServedFromCache ==
  /\ calls' = calls
  /\ cacheInstance' = cacheInstance
  /\ disk' = disk
  /\ TopPushed = cacheInstance.data.topRepos.data

TopFetched ==
  /\ Len(calls') > Len(calls)
  /\ calls'[Len(calls')].op = "search.repos"

TopSnapshotReplaced ==
  /\ cacheInstance'.data.topRepos =
       [present |-> TRUE, count |-> options.topRepos, data |-> TopPushed]
  /\ disk'.data.topRepos = cacheInstance'.data.topRepos

C32_StepAsWritten ==
  TopStep => IF ExactTopSnapshot THEN TopServedFromCache
             ELSE TopFetched /\ TopSnapshotReplaced

C32_StepUnlessFetchFails ==
  TopStep => IF ExactTopSnapshot THEN TopServedFromCache
             ELSE /\ TopFetched
                  /\ \/ TopSnapshotReplaced
                     \/ /\ pc' = "failed"
                        /\ cacheInstance' = cacheInstance
                        /\ disk' = disk

\* C32 as written: the top-N request is served from the cache without a
\* provider call exactly when the snapshot has count N and length N, and in
\* every other case the list is fetched and the snapshot is replaced.
C32_TopHitIffExactSnapshot == [][C32_StepAsWritten]_vars

\* C32: the top-N request is served from the cache without a provider call
\* exactly when the snapshot has count N and length N; in every other case
\* the provider is called, and the snapshot is replaced unless the call
\* fails, in which case the run fails and the cache and the file stay.
C32_TopHitIffExactSnapshotUnlessFailure == [][C32_StepUnlessFetchFails]_vars

\* C32 witness: findMatchingBranches has resolved --top-repos 2 from the
\* snapshot that main recorded: one search call, two repositories pushed.
C32_Witness ==
  /\ ctx = "branches"
  /\ options.topRepos = 2
  /\ acqIdx = 2
  /\ ~options.forceRefresh
  /\ Len(CallsOf("search.repos")) = 1
  /\ repositories = cacheInstance.data.topRepos.data
  /\ Len(repositories) = 2

\* C34: an owner whose type was determined by a probe in an earlier run is
\* not probed again in a later run, as long as no run has asked for
\* force-refresh or clear-cache and the process was never killed.
C34_OwnerTypeIsProbedOnce ==
  (history.plain /\ crashes = 0) =>
    \A owner \in history.probed : ~Called("orgs.get", owner)

\* the collector is about to be called for a repository whose entry has the
\* collection of the running pass, and the process is not killed
CollectorHit ==
  /\ pc \in {"branches_fetch", "prs_fetch"}
  /\ crashes' = crashes
  /\ KeyOf(unprocessedRepos[loopIdx]) \in DOMAIN cacheInstance.data.repositories
  /\ IF pc = "branches_fetch"
     THEN cacheInstance.data.repositories[KeyOf(unprocessedRepos[loopIdx])].hasBranches
     ELSE cacheInstance.data.repositories[KeyOf(unprocessedRepos[loopIdx])].hasPullRequests

C35_Step ==
  CollectorHit =>
    LET entry == cacheInstance.data.repositories[KeyOf(unprocessedRepos[loopIdx])]
    IN /\ fetched' = IF pc = "branches_fetch" THEN entry.branches ELSE entry.pullRequests
       /\ calls' = calls
       /\ cacheInstance' = cacheInstance
       /\ disk' = disk

\* C35: getBranches (getPullRequests) for a repository whose entry has a
\* branch (PR) collection returns that collection, calls no provider and
\* leaves the cache and the file as they are.
C35_CachedCollectionIsReturnedUntouched == [][C35_Step]_vars

\* C35 witness: getPullRequests has answered with an empty cached collection
\* and no provider call.
C35_Witness ==
  /\ pc = "prs_process"
  /\ fetched = <<>>
  /\ HasEntry(cacheInstance.data, KeyOf(unprocessedRepos[loopIdx]))
  /\ cacheInstance.data.repositories[KeyOf(unprocessedRepos[loopIdx])].hasPullRequests
  /\ cacheInstance.data.repositories[KeyOf(unprocessedRepos[loopIdx])].pullRequests = <<>>
  /\ ~Called("pulls.list", KeyOf(unprocessedRepos[loopIdx]))

\* the pull request of the provider that a PR match was built from
SourcePR(m) ==
  LET repo == CHOOSE r \in Range(ProviderRepos) : KeyOf(r) = m.repository
      prs == ProviderAllPRs(repo)
  IN prs[CHOOSE k \in 1..Len(prs) : prs[k].number = m.prNumber]

C36_UsernameOf(m) ==
  LET prefix == matchesBranchPattern(m.branchName).username
  IN IF prefix # Undefined THEN prefix
     ELSE IF SourcePR(m).user.present THEN SourcePR(m).user.login ELSE Unknown

C36_Step ==
  matchingPRs' # matchingPRs =>
    \A m \in Range(matchingPRs') :
      /\ m.username # <<>>
      /\ m.username # Undefined
      /\ m.username = C36_UsernameOf(m)

\* C36: whenever the list of PR matches changes, the username of every match
\* in it is the prefix extracted from the head branch name when there is one,
\* otherwise the author's login, "unknown" for a pull request without author;
\* it is never empty or undefined.
C36_PRMatchUsername == [][C36_Step]_vars

\* C36 witness: the matches of a pass hold one of a pull request without
\* author and one named by its author's login.
C36_Witness ==
  /\ pc = "prs_end"
  /\ \E k \in 1..Len(matchingPRs) :
       /\ ~SourcePR(matchingPRs[k]).user.present
       /\ matchingPRs[k].username = Unknown
  /\ \E k \in 1..Len(matchingPRs) :
       /\ matchesBranchPattern(matchingPRs[k].branchName).username = Undefined
       /\ matchingPRs[k].username = SourcePR(matchingPRs[k]).user.login

\* C37: once a run has started and saved its cache, the cliOptions of the
\* persisted root are the options of that run.
C37_SavedOptionsAreTheRunsOptions ==
  (Running /\ disk.present /\ ~disk.torn) => disk.data.cliOptions = options

\* the loop hands the snapshot it got from getCache to the mark helper and
\* keeps the result in its local variable
C38_Step ==
  (pc \in {"branches_process", "prs_process"} /\ crashes' = crashes) =>
    cacheInstance'.data.repositories = cacheInstance.data.repositories

\* C38: a mutation helper leaves the cache passed to it, its repositories map
\* and the entries in it unchanged.
C38_HelperLeavesItsArgumentUnchanged == [][C38_Step]_vars

\* the entry with the flag of the running pass set
Flagged(entry) ==
  IF pc = "branches_process" THEN [entry EXCEPT !.branchesProcessed = TRUE]
  ELSE [entry EXCEPT !.prsProcessed = TRUE]

\* the cache marked once more for the repository of the step
MarkedAgain(cache) ==
  IF pc = "branches_process"
  THEN markRepositoryBranchesProcessed(cache, unprocessedRepos[loopIdx].owner, unprocessedRepos[loopIdx].name)
  ELSE markRepositoryPRsProcessed(cache, unprocessedRepos[loopIdx].owner, unprocessedRepos[loopIdx].name)

C39_Step ==
  (pc \in {"branches_process", "prs_process"} /\ crashes' = crashes) =>
    LET before == cacheInstance.data
        after == cacheInstance'.data
    IN /\ MarkedAgain(after) = after
       /\ after = [before EXCEPT !.repositories =
                     [k \in DOMAIN before.repositories |->
                        IF k = KeyOf(unprocessedRepos[loopIdx])
                        THEN Flagged(before.repositories[k])
                        ELSE before.repositories[k]]]

\* C39: marking a repository processed changes nothing but that repository's
\* flag, and marking it once more changes nothing.
C39_MarkIsIdempotentAndLocal == [][C39_Step]_vars

\* C39 witness: the second repository of a pass has been marked while the
\* first one keeps its collection and its flag.
C39_Witness ==
  /\ pc \in {"branches_fetch", "branches_end"}
  /\ loopIdx = 3
  /\ \A k \in 1..2 :
       /\ HasEntry(cacheInstance.data, KeyOf(unprocessedRepos[k]))
       /\ cacheInstance.data.repositories[KeyOf(unprocessedRepos[k])].hasBranches
       /\ cacheInstance.data.repositories[KeyOf(unprocessedRepos[k])].branchesProcessed
(***************************************************************************)
(* Branch names given to the matcher: prefix \o middle \o suffix           *)
(***************************************************************************)
MaxPrefixLen == 3
SuffixSlack == 1

PrefixChars == {"a", "/"}
SuffixOdd == {"Z", "7", "-", "_", "/"}

SeqsUpTo(S, n) == UNION {[1..k -> S] : k \in 0..n}

Middles == {PushLit, <<"/">> \o PushLit, <<"p","u","s","h","_">>, <<"P","u","s","h","-">>}

\* runs of "x" of length n, at most one position replaced by an odd character
Suffixes ==
  UNION {LET base == [k \in 1..n |-> "x"]
         IN {base} \cup {[base EXCEPT ![p] = c] : p \in 1..n, c \in SuffixOdd}
         : n \in (SuffixLen - SuffixSlack)..(SuffixLen + SuffixSlack)}

MatchInputs == {p \o m \o x : p \in SeqsUpTo(PrefixChars, MaxPrefixLen), m \in Middles, x \in Suffixes}

NoResult == [matches |-> FALSE, username |-> "unset"]

MatchInit ==
  /\ branchName \in MatchInputs
  /\ matchResult = NoResult
  /\ ParserIdle
  /\ DisplayIdle
  /\ TopLoopIdle
  /\ ListIdle
  /\ ScanIdle

CallMatch ==
  /\ matchResult = NoResult
  /\ matchResult' = matchesBranchPattern(branchName)
  /\ UNCHANGED <<branchName, parseInput, parseOutput, matchList, report, topInput,
                 topOutput, listInput, listOutput, svars>>

MatchNext == CallMatch

SpecMatch == MatchInit /\ [][MatchNext]_vars

Returned == matchResult # NoResult

(***************************************************************************)
(* What the text says about the matcher, stated on the characters of the   *)
(* name and not through the patterns                                       *)
(***************************************************************************)
\* a letter (upper or lower case) or a digit
IsLetterOrDigit(c) == c \in Lower \cup Upper \cup Digit

\* the name ends with "push-" and exactly 12 more characters, all
\* letters or digits, the "push-" starting at offset at
EndsWithPush(s, at) ==
  /\ at >= 1
  /\ Len(s) = at + 5 + 12 - 1
  /\ SubSeq(s, at, at + 4) = <<"p","u","s","h","-">>
  /\ \A k \in (at + 5)..Len(s) : IsLetterOrDigit(s[k])

ShapeA(s) == EndsWithPush(s, 1)

\* "/push-..." at the end, the "/" at offset at-1 preceded by a non-"/"
ShapeB(s) ==
  LET at == Len(s) - 5 - 12 + 1
  IN /\ at >= 3
     /\ EndsWithPush(s, at)
     /\ s[at - 1] = "/"
     /\ s[at - 2] # "/"

\* everything before the final "/" of a shape (b) name
WholePrefix(s) == SubSeq(s, 1, Len(s) - 5 - 12 - 1)

HasSlash(s) == \E k \in 1..Len(s) : s[k] = "/"

IsSuffixOf(u, s) ==
  /\ Len(u) <= Len(s)
  /\ \A k \in 1..Len(u) : u[k] = s[Len(s) - Len(u) + k]

\* C8: the matcher accepts a name exactly when it is "push-" plus 12
\* alphanumerics, or ends with "/push-" plus 12 alphanumerics with the "/"
\* preceded by a non-"/" character.
C8_MatchesIffShape ==
  Returned => (matchResult.matches <=> (ShapeA(branchName) \/ ShapeB(branchName)))

\* C8 witness: a name of shape (b) was accepted and returned.
C8_Witness ==
  /\ Returned
  /\ matchResult.matches
  /\ ShapeB(branchName)
  /\ Len(WholePrefix(branchName)) >= 2

\* C9: for shape (b) the username is the single segment right before
\* "/push-...": it has no "/", it ends the prefix, and it is not preceded by a
\* non-"/" character; a shape (a) name matches with no username.
C9_UsernameIsLastSegment ==
  Returned =>
    /\ ShapeA(branchName) =>
         (matchResult.matches /\ matchResult.username = Undefined)
    /\ (ShapeB(branchName) /\ ~ShapeA(branchName)) =>
         LET u == matchResult.username
             p == WholePrefix(branchName)
         IN /\ u # Undefined
            /\ Len(u) >= 1
            /\ ~HasSlash(u)
            /\ IsSuffixOf(u, p)
            /\ Len(u) < Len(p) => p[Len(p) - Len(u)] = "/"

\* C9 witness: a name with two segments before "/push-..." returned its
\* second segment.
C9_Witness ==
  /\ Returned
  /\ ShapeB(branchName)
  /\ HasSlash(WholePrefix(branchName))
  /\ matchResult.username = <<"a">>
  /\ Len(WholePrefix(branchName)) = 3

\* C10 as written: for shape (b) the username is everything before the
\* final "/".
C10_UsernameIsWholePrefix ==
  (Returned /\ ShapeB(branchName) /\ ~ShapeA(branchName)) =>
    matchResult.username = WholePrefix(branchName)

\* C10 amended: for shape (b) the username is a suffix of the text before the
\* final "/", and it is the whole of that text exactly when the text
\* contains no "/".
C10_UsernameIsPrefixIffNoSlash ==
  (Returned /\ ShapeB(branchName) /\ ~ShapeA(branchName)) =>
    /\ matchResult.username # Undefined
    /\ IsSuffixOf(matchResult.username, WholePrefix(branchName))
    /\ (matchResult.username = WholePrefix(branchName))
         <=> ~HasSlash(WholePrefix(branchName))

\* C10 witness: a shape (b) name whose prefix has no "/" returned the whole
\* prefix.
C10_Witness ==
  /\ Returned
  /\ ShapeB(branchName)
  /\ ~HasSlash(WholePrefix(branchName))
  /\ matchResult.username = WholePrefix(branchName)
  /\ Len(WholePrefix(branchName)) = 2


(***************************************************************************)
(* parseRepoString on bounded strings                                      *)
(***************************************************************************)
MaxRepoStringLen == 5

RepoChars == {"a", "b", "/"}

ParseInputs == SeqsUpTo(RepoChars, MaxRepoStringLen)

ParseInit ==
  /\ parseInput \in ParseInputs
  /\ parseOutput = NoParse
  /\ MatcherIdle
  /\ DisplayIdle
  /\ TopLoopIdle
  /\ ListIdle
  /\ ScanIdle

CallParse ==
  /\ ~parseOutput.called
  /\ parseOutput' = [called |-> TRUE, value |-> parseRepoString(parseInput)]
  /\ UNCHANGED <<branchName, matchResult, parseInput, matchList, report, topInput,
                 topOutput, listInput, listOutput, svars>>

ParseNext == CallParse

SpecParse == ParseInit /\ [][ParseNext]_vars

SlashPositions(s) == {k \in 1..Len(s) : s[k] = "/"}

Least(S) == CHOOSE x \in S : \A y \in S : x <= y

\* C20: for a string with a "/", parseRepoString returns as owner the text
\* before the first "/" and as repo the text between the first and the
\* second "/", or up to the end when there is no second one; what follows a
\* second "/" is ignored.
C20_ParseTakesFirstTwoSegments ==
  (parseOutput.called /\ SlashPositions(parseInput) # {}) =>
    LET first == Least(SlashPositions(parseInput))
        later == SlashPositions(parseInput) \ {first}
        second == IF later = {} THEN Len(parseInput) + 1 ELSE Least(later)
    IN /\ parseOutput.value.owner = SubSeq(parseInput, 1, first - 1)
       /\ parseOutput.value.repo = SubSeq(parseInput, first + 1, second - 1)

\* C20 witness: a string of three segments has been parsed.
C20_Witness ==
  /\ parseOutput.called
  /\ parseInput = <<"a", "/", "b", "/", "a">>
  /\ parseOutput.value.owner = <<"a">>
  /\ parseOutput.value.repo = <<"b">>

(***************************************************************************)
(* The grouping of main on bounded match lists                             *)
(***************************************************************************)
MaxMatches == 4

DisplayRepos == {StrOR, StrQT}

DisplayUsers == {<<"a", "l">>, <<"b">>}

\* branch matches as findMatchingBranches builds them
BranchMatchInputs ==
  {[repository |-> r,
    branch |-> IF u = Undefined THEN BranchPush ELSE u \o <<"/">> \o BranchPush,
    username |-> u] : r \in DisplayRepos, u \in DisplayUsers \cup {Undefined}}

\* PR matches as findMatchingPullRequests builds them
PRMatchInputs ==
  {[repository |-> r, prNumber |-> 1, status |-> "open", branchName |-> BranchPush,
    username |-> u] : r \in DisplayRepos, u \in DisplayUsers}

MatchLists ==
  {[branches |-> b, prs |-> <<>>] : b \in SeqsUpTo(BranchMatchInputs, MaxMatches)}
  \cup {[branches |-> <<>>, prs |-> p] : p \in SeqsUpTo(PRMatchInputs, MaxMatches)}

DisplayInit ==
  /\ matchList \in MatchLists
  /\ report = NoReport
  /\ MatcherIdle
  /\ ParserIdle
  /\ TopLoopIdle
  /\ ListIdle
  /\ ScanIdle

ShowReport ==
  /\ ~report.called
  /\ report' = [called |-> TRUE, value |-> Display(matchList.branches, matchList.prs)]
  /\ UNCHANGED <<branchName, matchResult, parseInput, parseOutput, matchList, topInput,
                 topOutput, listInput, listOutput, svars>>

DisplayNext == ShowReport

SpecDisplay == DisplayInit /\ [][DisplayNext]_vars

\* the name a match is counted under
ResolvedName(m) ==
  IF m.username = <<"undefined">> THEN <<"<","n","o"," ","p","r","e","f","i","x",">">>
  ELSE m.username

OfRepo(ms, r) == {k \in 1..Len(ms) : ms[k].repository = r}

OfPair(ms, r, u) == {k \in OfRepo(ms, r) : ResolvedName(ms[k]) = u}

RECURSIVE SumOf(_)
SumOf(ns) == IF ns = <<>> THEN 0 ELSE Head(ns) + SumOf(Tail(ns))

\* the groups are those of the match list ms, cnt[g][k] being the count of
\* the k-th user of group g
Aggregates(groups, ms, cnt) ==
  /\ {groups[g].repository : g \in 1..Len(groups)} = {ms[k].repository : k \in 1..Len(ms)}
  /\ \A g, h \in 1..Len(groups) : groups[g].repository = groups[h].repository => g = h
  /\ \A g \in 1..Len(groups) :
       LET r == groups[g].repository
           us == groups[g].userStats
       IN /\ groups[g].total = Cardinality(OfRepo(ms, r))
          /\ {us[k].key : k \in 1..Len(us)} = {ResolvedName(ms[k]) : k \in OfRepo(ms, r)}
          /\ \A k, l \in 1..Len(us) : us[k].key = us[l].key => k = l
          /\ \A k \in 1..Len(us) : cnt[g][k] = Cardinality(OfPair(ms, r, us[k].key))
          /\ SumOf(cnt[g]) = Cardinality(OfRepo(ms, r))
          /\ \A k \in 1..(Len(us) - 1) : cnt[g][k] >= cnt[g][k + 1]

\* C11: the groups main prints are the repositories of the match list, each
\* with its users; the count of a (repository, user) pair is the number of
\* matches with that pair, the counts of a repository add up to its number
\* of matches, the users come in non-increasing order of count, and a branch
\* match without username is counted under "<no prefix>".
C11_GroupsCountMatches ==
  report.called =>
    /\ Aggregates(report.value.branches, matchList.branches,
         [g \in 1..Len(report.value.branches) |->
            [k \in 1..Len(report.value.branches[g].userStats) |->
               report.value.branches[g].userStats[k].value]])
    /\ Aggregates(report.value.prs, matchList.prs,
         [g \in 1..Len(report.value.prs) |->
            [k \in 1..Len(report.value.prs[g].userStats) |->
               Len(report.value.prs[g].userStats[k].value)]])

\* C11 witness: four branch matches in two repositories; in the first group
\* the user of the first match has one match and is listed after a user
\* with two, and one name is "<no prefix>".
C11_Witness ==
  /\ report.called
  /\ Len(matchList.branches) = 4
  /\ Len(report.value.branches) = 2
  /\ LET us == report.value.branches[1].userStats
     IN /\ Len(us) = 2
        /\ us[1].value = 2
        /\ us[2].value = 1
        /\ us[2].key = ResolvedName(matchList.branches[1])
        /\ us[1].key = <<"<","n","o"," ","p","r","e","f","i","x",">">>

(***************************************************************************)
(* The loop of getTopRepos on search results around the page size          *)
(***************************************************************************)
MaxTopCount == 202
MaxSearchTotal == 202
PageSlack == 2

\* within PageSlack of a multiple of the page size
NearPage(n) == n % PerPage <= PageSlack \/ n % PerPage >= PerPage - PageSlack

\* the search result is the star ranking 1, 2, ...
TopInputs ==
  {[count |-> c, items |-> [k \in 1..t |-> k]] :
     c \in {c \in 1..MaxTopCount : NearPage(c)},
     t \in {t \in 0..MaxSearchTotal : NearPage(t)}}

TopInit ==
  /\ topInput \in TopInputs
  /\ topOutput = NoTopOutput
  /\ ListIdle
  /\ MatcherIdle
  /\ ParserIdle
  /\ DisplayIdle
  /\ ScanIdle

CallTopLoop ==
  /\ ~topOutput.called
  /\ topOutput' = [called |-> TRUE, value |-> TopFetch(topInput.items, topInput.count)]
  /\ UNCHANGED <<branchName, matchResult, parseInput, parseOutput, matchList, report,
                 topInput, listInput, listOutput, svars>>

TopNext == CallTopLoop

SpecTop == TopInit /\ [][TopNext]_vars

\* C17: getTopRepos(N) returns at most N repositories, the first ones of the
\* provider's order, and it requests a further page only while fewer than N
\* are collected and every page so far was full (100 entries).
C17_TopLoopStopsAtCountOrShortPage ==
  topOutput.called =>
    LET n == topInput.count
        t == Len(topInput.items)
        out == topOutput.value
    IN /\ Len(out.repos) <= n
       /\ out.repos = SubSeq(topInput.items, 1, IF n < t THEN n ELSE t)
       /\ out.pages >= 1
       /\ \A p \in 2..out.pages : (p - 1) * 100 < n /\ (p - 1) * 100 <= t
       /\ out.pages * 100 >= n \/ out.pages * 100 > t

\* C17 witness: 101 repositories asked, 200 found in two full pages, 101
\* returned.
C17_Witness ==
  /\ topOutput.called
  /\ topInput.count = 101
  /\ Len(topInput.items) = 200
  /\ topOutput.value.pages = 2
  /\ Len(topOutput.value.repos) = 101

(***************************************************************************)
(* The fetch loop of findMatchingBranches on a long repository list        *)
(***************************************************************************)
MaxLoopRepos == 9

\* the n repositories of owner w, named r, rr, rrr, ...
LoopRepos(n) == [i \in 1..n |-> Repo(<<"w">>, [j \in 1..i |-> "r"])]

\* the cache of a run of --owner w that has listed the n repositories of w
\* and has fetched, marked and saved the first k of them
LoopCache(n, k) ==
  LET listed == cacheOwnerRepositories(initializeCache, <<"w">>, LoopRepos(n))
      done == {KeyOf(LoopRepos(n)[i]) : i \in 1..k}
  IN [listed EXCEPT !.repositories =
        [key \in DOMAIN listed.repositories |->
           IF key \in done
           THEN [listed.repositories[key] EXCEPT
                   !.hasBranches = TRUE,
                   !.branches = ProviderBranches(listed.repositories[key].data),
                   !.branchesProcessed = TRUE]
           ELSE listed.repositories[key]]]

\* findMatchingBranches has resolved the list from the cache and is at its
\* first loop; the provider may fail every listing of the pass (a rate
\* limit that stays), so the failure counter starts that far below its limit
LoopInit ==
  /\ MatcherIdle
  /\ ParserIdle
  /\ DisplayIdle
  /\ TopLoopIdle
  /\ ListIdle
  /\ \E n \in 1..MaxLoopRepos, k \in {0, 3}, maxRepos \in {0, 7} :
       /\ k <= n
       /\ options = Opts(<<<<"w">>>>, <<>>, 0, maxRepos, FALSE)
       /\ cacheInstance = [loaded |-> TRUE, data |-> LoopCache(n, k)]
       /\ disk = File(LoopCache(n, k))
       /\ mainRepos = LoopRepos(n)
       /\ repositories = LoopRepos(n)
  /\ pc = "acquire"
  /\ ctx = "branches"
  /\ acqIdx = 2
  /\ unprocessedRepos = <<>>
  /\ loopIdx = 1
  /\ fetched = <<>>
  /\ processedRepos = 0
  /\ matchingBranches = <<>>
  /\ matchingPRs = <<>>
  /\ calls = <<>>
  /\ runs = 1
  /\ crashes = 0
  /\ failures = MaxFailures - MaxLoopRepos
  /\ history = NoHistory

LoopNext ==
  \/ ScanCachedBranches
  \/ getBranches
  \/ ProcessBranches
  \/ FinishBranches

SpecLoop == LoopInit /\ [][LoopNext]_vars

\* the repositories whose flag of the running pass is set in memory and not
\* in the file
UnsavedFlags ==
  {key \in DOMAIN cacheInstance.data.repositories :
     /\ FlagSet(cacheInstance.data, key)
     /\ ~(disk.present /\ FlagSet(disk.data, key))}

\* C25: at every point of the fetch loop fewer than 5 repositories have
\* their flag set in memory and not in the file.
C25_FewerThanFiveUnsavedFlags ==
  (InBranchPass \/ InPRPass) => Cardinality(UnsavedFlags) < 5

\* C25 witness: the counter started at 3, the loop has saved at 5 and has
\* since set four flags that are not in the file.
C25_Witness ==
  /\ pc = "branches_end"
  /\ processedRepos = 9
  /\ Len(unprocessedRepos) = 6
  /\ Cardinality(UnsavedFlags) = 4
  /\ \E key \in DOMAIN disk.data.repositories :
       /\ disk.data.repositories[key].branchesProcessed
       /\ ~disk.data.repositories[key].hasBranches

(***************************************************************************)
(* github.ts of the gh revision: getRepositories with its GraphQL fallback *)
(***************************************************************************)
\* gh repo list --limit 1000
ListLimit == 1000

\* a variant that falls back one repository early
NeedsFallbackEarly(reposOnPage) == Len(reposOnPage) >= ListLimit - 1

\* if (reposOnPage.length === 1000)
NeedsFallback(reposOnPage) == Len(reposOnPage) = ListLimit

\* the while loop of fetchRemainingRepositories inside its try block: page
\* p of the provider's answers is requested next; a page that fails (or a
\* provider that has no answer left) ends the loop in the catch block
RECURSIVE RemainingLoop(_, _, _)
RemainingLoop(existingRepos, pages, p) ==
  IF p > Len(pages) \/ pages[p].fails
  THEN [repos |-> existingRepos, calls |-> p, caught |-> TRUE]
  ELSE LET pushed == existingRepos \o pages[p].nodes
       IN IF pages[p].hasNextPage
          THEN RemainingLoop(pushed, pages, p + 1)
          ELSE [repos |-> pushed, calls |-> p, caught |-> FALSE]

\* fetchRemainingRepositories pushes onto the caller's array and returns
\* nothing; the array after the call and the number of GraphQL calls
fetchRemainingRepositories(existingRepos, pages) ==
  RemainingLoop(existingRepos, pages, 1)

\* getRepositories(organization) of github.ts
getRepositoriesGh(input) ==
  IF input.firstFails
  THEN [called |-> TRUE, raised |-> TRUE,
        value |-> RepositoriesError(input.organization), calls |-> 0]
  ELSE IF NeedsFallback(input.first)
  THEN LET rest == fetchRemainingRepositories(input.first, input.pages)
       IN [called |-> TRUE, raised |-> FALSE, value |-> rest.repos, calls |-> rest.calls]
  ELSE [called |-> TRUE, raised |-> FALSE, value |-> input.first, calls |-> 0]

MaxFallbackPages == 2
MaxPageNodes == 2

\* a GraphQL answer: it fails, or it has no or MaxPageNodes nodes and says
\* whether a next page exists
PageChoices == [fails : BOOLEAN, hasNextPage : BOOLEAN, size : {0, MaxPageNodes}]

\* repositories are stood for by numbers: 1, 2, ... on the first listing,
\* ListLimit * p + 1, ... on fallback page p
PagesOf(choice) ==
  [p \in DOMAIN choice |->
     [fails |-> choice[p].fails, hasNextPage |-> choice[p].hasNextPage,
      nodes |-> [j \in 1..choice[p].size |-> ListLimit * p + j]]]

\* the provider's answers, up to one that fails or has no next page
Scripts ==
  {PagesOf(choice) : choice \in
     {c \in UNION {[1..n -> PageChoices] : n \in 1..MaxFallbackPages} :
        \E p \in DOMAIN c : c[p].fails \/ ~c[p].hasNextPage}}

ListInputs ==
  {[organization |-> OwnerO, firstFails |-> f, first |-> [k \in 1..n |-> k], pages |-> s] :
     f \in BOOLEAN, n \in {0, 1, ListLimit - 1, ListLimit}, s \in Scripts}

ListInit ==
  /\ listInput \in ListInputs
  /\ listOutput = NoListOutput
  /\ MatcherIdle
  /\ ParserIdle
  /\ DisplayIdle
  /\ TopLoopIdle
  /\ ScanIdle

CallGetRepositories ==
  /\ ~listOutput.called
  /\ listOutput' = getRepositoriesGh(listInput)
  /\ UNCHANGED <<branchName, matchResult, parseInput, parseOutput, matchList, report,
                 topInput, topOutput, listInput, svars>>

ListNext == CallGetRepositories

SpecList == ListInit /\ [][ListNext]_vars

\* the first answer that fails or reports no next page
StopPage(pages) ==
  CHOOSE p \in DOMAIN pages :
    /\ pages[p].fails \/ ~pages[p].hasNextPage
    /\ \A q \in 1..(p - 1) : ~pages[q].fails /\ pages[q].hasNextPage

RECURSIVE NodesUpTo(_, _)
NodesUpTo(pages, m) ==
  IF m = 0 THEN <<>> ELSE NodesUpTo(pages, m - 1) \o pages[m].nodes

\* C33: when the first listing succeeds nothing is raised; GraphQL pages are
\* requested exactly when the first listing has 1000 repositories; the
\* requests stop at the first page that fails or reports no next page, and
\* the result is the first listing followed by the nodes of every page
\* before a failing one, or up to the page without next page.
C33_FallbackIffFullPageAndPartialOnFailure ==
  (listOutput.called /\ ~listInput.firstFails) =>
    LET pages == listInput.pages
        stop == StopPage(pages)
        kept == IF pages[stop].fails THEN stop - 1 ELSE stop
    IN /\ ~listOutput.raised
       /\ listOutput.calls > 0 <=> Len(listInput.first) = ListLimit
       /\ Len(listInput.first) # 1000 => listOutput.value = listInput.first
       /\ Len(listInput.first) = ListLimit =>
            /\ listOutput.calls = stop
            /\ listOutput.value = listInput.first \o NodesUpTo(pages, kept)

\* C33 witness: 1000 repositories on the first listing, a fallback page with
\* two repositories and a next page, then a page that fails: 1002
\* repositories are returned.
C33_Witness ==
  /\ listOutput.called
  /\ ~listOutput.raised
  /\ Len(listInput.first) = ListLimit
  /\ Len(listInput.pages) = 2
  /\ listInput.pages[2].fails
  /\ listOutput.calls = 2
  /\ Len(listOutput.value) = ListLimit + 2
====
